---------------------------- MODULE Spec2Model ----------------------------
(***************************************************************************)
(* Concurrency and resource-governance core of Table-as-Search:            *)
(*   - the resource governors GlobalSearchCounter, GlobalVisitCounter and  *)
(*     GlobalCreateTableCounter (three copies of one class body),          *)
(*   - the call governor GlobalManagedAgentCounter,                        *)
(*   - MemoryManagedToolCallingAgent.execute_tool_call and the per-call    *)
(*     copy of a managed agent,                                            *)
(*   - the create_table path of DBTableCodeToolInterface.                  *)
(***************************************************************************)
EXTENDS Integers, Sequences, FiniteSets, TLC

(***************************************************************************)
(* Bounds of the model.                                                    *)
(***************************************************************************)
\* largest limit a governor is constructed with
MaxLimit == 2
\* number of threads that use one resource governor
NumThreads == 2
\* governor calls started in one run: enough for 2 * limit try_increment calls
MaxOps == 2 * MaxLimit + 1

\* tool threads of the main agent that run execute_tool_call concurrently
NumToolThreads == 2
\* delegations (execute_tool_call invocations for a managed agent) in one run
MaxCalls == 3
\* largest limit the call governor is constructed with for one agent name
MaxCallLimit == 2
\* calls of the call governor's reset in one run
MaxResets == 1
\* largest global_search_limit / global_visit_limit of a task
MaxBudget == 1
\* search and visit tool calls made in one run
MaxToolCalls == 3
\* workers of one task that call create_table
NumWorkers == 2
\* requests one search or visit call sends out (retries, fallback)
MaxRequests == 2
\* steps one run of an agent takes
MaxAgentSteps == 3
\* largest input-token count a model call reports
MaxTokens == 2
\* largest context_token_threshold
MaxThreshold == 1
\* largest min_steps_before_summary
MaxMinSteps == 2
\* largest summary_max_retries
MaxRetries == 8
\* largest timeout_seconds
MaxTimeout == 2
\* batch runs that came before the one looked at
MaxBatches == 3
\* largest max_workers
MaxWorkers == 2
\* tasks of a batch
NumTasks == 3
\* documents in the table
MaxRecords == 2
\* the add_records calls one worker makes
MaxAddCalls == 2

Threads == 1..NumThreads
GovOps == {"try_increment", "get_count", "get_remaining", "reset"}

Max(a, b) == IF a >= b THEN a ELSE b

VARIABLES
    \* ---- one resource governor (GlobalSearchCounter and its two twins) ----
    limit,       \* self.limit
    count,       \* self.count
    lock,        \* self._lock: 0 when free, else the thread that holds it
    gpc,         \* gpc[t]: where thread t is in its current governor call
    gop,         \* gop[t]: the method thread t is running
    gret,        \* gret[t]: the value that method is about to return
    gseen,       \* gseen[t]: self.count when t took the lock   (history)
    gstat,       \* tallies of what has happened so far          (history)
    \* ---- the main agent, its managed agents and the call governor ----
    limits,          \* managed_agent_counter.limits (empty: no counter is set)
    counts,          \* managed_agent_counter.counts
    managed_agents,  \* main_agent.managed_agents: name -> agent object
    agents,          \* the agent objects: memory, step_number, state, tools
    cpc,             \* cpc[t]: where tool thread t is in execute_tool_call
    frame,           \* frame[t]: the locals of the call thread t is running
    result,          \* result[c]: what call c returned
    glog,            \* glog[c]: the call governor's decision on call c (history)
    tstat,           \* tallies of the delegations                  (history)
    \* ---- the search and visit tools and their governors ----
    tool_limit,      \* global_search_limit / global_visit_limit (-1: None)
    tool_count,      \* tool_count[k][g]: count of governor object g of kind k
    tool_stat,       \* tallies of the tool calls                   (history)
    \* ---- the table tool, its governor and the record store ----
    task_id,             \* the task's id, prefixed to collection names
    create_table_count,  \* count of the create-table governor
    collections,         \* collection name -> columns of its schema document
    metadata,            \* collection name -> columns recorded in the metadata
    wpc,                 \* wpc[w]: where worker w is in forward
    wargs,               \* wargs[w]: the arguments of w's call
    wret,                \* wret[w]: what w's call returned
    wreq,                \* wreq[w]: requests w's call sent to the outside
    tbl_stat,            \* tallies of the create_table calls       (history)
    \* ---- one agent with context summarization ----
    task,                       \* self.task
    steps,                      \* self.memory.steps
    context_token_threshold,
    min_steps_before_summary,
    summary_max_retries,
    api_available,              \* request_api_detail is not None
    spc,                        \* where the agent is in its step loop
    step_number,                \* steps taken in this run
    attempt,                    \* loop variable of the retry loop
    waits,                      \* the sleeps of the retry loop so far
    summary,                    \* what _generate_context_summary returned
    summarization_count,        \* self._summarization_count
    snap,                       \* the memory at the last trigger check (history)
    \* ---- one task under run_single_task_with_timeout ----
    timeout_seconds,
    ppc,                 \* where the supervising thread is
    now,                 \* seconds since start_time
    join_from,           \* `now` when the join in progress was entered
    process,             \* the child process: initial, alive or exited
    signals,             \* the signals sent to the child, in order
    result_queue,        \* what the child has put on the queue
    result_file,         \* output_dir / "{instance_id}.json"
    task_tables,         \* the store holds tables of this task
    api_error_in_log,    \* agent_log.txt ends with an API error pattern
    res,                 \* the result dict of the task
    \* ---- the thread pool of run_widesearch_batch ----
    max_workers,
    worker_task,         \* worker_task[w]: the task pool thread w is running
    task_state,          \* task_state[t]: where the run of task t is
    child_alive,         \* child_alive[t]: the process of task t is alive
    pool_signals,        \* pool_signals[t]: the signals sent to that process
    \* ---- one call of OpenAIServerModel.generate / generate_stream ----
    mpc,                 \* where the call is
    m_stream,            \* the call is generate_stream
    m_attempt,           \* the loop variable `attempt`
    m_error,             \* the exception of the last attempt
    m_sleeps,            \* how many times the call has slept
    m_sleep_time,        \* the last sleep_time, in seconds
    \* ---- the records of one table of DBTableCodeTool ----
    table_exists,        \* the collection holds a schema document
    schema_columns,      \* schema_doc["columns"]
    records,             \* the documents of the collection, schema apart
    rec_op,              \* the last operation called on the table
    rec_off,             \* the fields outside the schema that call supplied
    rec_report,          \* what that call returned
    \* ---- the locks of the four governors of one task ----
    locks,               \* locks[g]: the thread holding _lock of governor g
    lpc,                 \* lpc[t]: where tool thread t is
    todo,                \* todo[t]: the governor calls thread t has yet to make
    held,                \* held[t]: the governor locks thread t holds
    \* ---- one delete_records call on the table ----
    dpc,                 \* where the call is
    del_query,           \* the filter of the call
    matching_records,    \* list(collection.find(query))
    deleted,             \* the documents removed so far, as they were then
    \* ---- the database of a batch run ----
    batch_clear_db,      \* the clear_db argument of run_widesearch_batch
    bpc,                 \* where run_widesearch_batch is
    db_clears,           \* how often clear_database_tables has run
    entered,             \* the tasks whose child has entered run_inference
    cleared_under,       \* the tasks alive at some clear_database_tables
    apc,                 \* where each add_records call is
    add_calls,           \* the add_records calls each worker has made
    add_args,            \* records_data of the call
    add_prev,            \* records_data of the call before it
    add_pending          \* records_to_insert of the call

govVars == <<limit, count, lock, gpc, gop, gret, gseen, gstat>>
teamVars == <<limits, counts, managed_agents, agents, cpc, frame, result,
              glog, tstat>>

toolVars == <<tool_limit, tool_count, tool_stat>>

tableVars == <<task_id, create_table_count, collections, metadata, wpc, wargs,
               wret, wreq, tbl_stat>>

compVars == <<task, steps, context_token_threshold, min_steps_before_summary,
              summary_max_retries, api_available, spc, step_number, attempt,
              waits, summary, summarization_count, snap>>

schedVars == <<timeout_seconds, ppc, now, join_from, process, signals,
               result_queue, result_file, task_tables, api_error_in_log, res>>

poolVars == <<max_workers, worker_task, task_state, child_alive,
              pool_signals>>

modelVars == <<mpc, m_stream, m_attempt, m_error, m_sleeps, m_sleep_time>>

recVars == <<table_exists, schema_columns, records, rec_op, rec_off,
             rec_report>>

lockVars == <<locks, lpc, todo, held>>

delVars == <<dpc, del_query, matching_records, deleted>>

batchVars == <<batch_clear_db, bpc, db_clears, entered, cleared_under>>

addVars == <<apc, add_calls, add_args, add_prev, add_pending>>

vars == <<govVars, teamVars, toolVars, tableVars, compVars, schedVars,
          poolVars,
          modelVars,
          recVars,
          lockVars,
          delVars,
          batchVars,
          addVars>>

\* what the operations of one component leave alone
notGovVars ==
    <<teamVars, toolVars, tableVars, compVars, schedVars, poolVars,
          modelVars,
          recVars,
          lockVars,
          delVars,
          batchVars,
          addVars>>
notTeamVars ==
    <<govVars, toolVars, tableVars, compVars, schedVars, poolVars,
          modelVars,
          recVars,
          lockVars,
          delVars,
          batchVars,
          addVars>>
notToolVars ==
    <<govVars, teamVars, tableVars, compVars, schedVars, poolVars,
          modelVars,
          recVars,
          lockVars,
          delVars,
          batchVars,
          addVars>>
notTableVars ==
    <<govVars, teamVars, toolVars, compVars, schedVars, poolVars,
          modelVars,
          recVars,
          lockVars,
          delVars,
          batchVars,
          addVars>>
notCompVars ==
    <<govVars, teamVars, toolVars, tableVars, schedVars, poolVars,
          modelVars,
          recVars,
          lockVars,
          delVars,
          batchVars,
          addVars>>
notSchedVars ==
    <<govVars, teamVars, toolVars, tableVars, compVars, poolVars,
          modelVars,
          recVars,
          lockVars,
          delVars,
          batchVars,
          addVars>>
notPoolVars ==
    <<govVars, teamVars, toolVars, tableVars, compVars, schedVars, modelVars,
          recVars,
          lockVars,
          delVars,
          batchVars,
          addVars>>
notModelVars ==
    <<govVars, teamVars, toolVars, tableVars, compVars, schedVars, poolVars, recVars,
          lockVars,
          delVars,
          batchVars,
          addVars>>
notRecVars ==
    <<govVars, teamVars, toolVars, tableVars, compVars, schedVars, poolVars, modelVars, lockVars,
          delVars,
          batchVars,
          addVars>>
notLockVars ==
    <<govVars, teamVars, toolVars, tableVars, compVars, schedVars, poolVars, modelVars, recVars, delVars,
          batchVars,
          addVars>>
notDelVars ==
    <<govVars, teamVars, toolVars, tableVars, compVars, schedVars, poolVars, modelVars, recVars, lockVars, batchVars,
          addVars>>
notBatchVars ==
    <<govVars, teamVars, toolVars, tableVars, compVars, schedVars, poolVars,
      modelVars, recVars, lockVars, delVars, addVars>>
notAddVars ==
    <<govVars, teamVars, toolVars, tableVars, compVars, schedVars, poolVars, modelVars, recVars, lockVars, delVars, batchVars>>

(***************************************************************************)
(* Resource governor: GlobalSearchCounter / GlobalVisitCounter /           *)
(* GlobalCreateTableCounter.                                               *)
(***************************************************************************)

\* `with self._lock:` is entered only while no thread holds the lock
LockAlwaysFree(holder) == TRUE
LockFree(holder) == holder = 0

\* `if self.count >= self.limit: return False`
AtLimitOffByOne(c, l) == c > l
AtLimit(c, l) == c >= l

\* `self.count += 1`
IncrementedTwice(c) == c + 2
Incremented(c) == c + 1

\* `max(0, self.limit - self.count)`
Remaining(c, l) == Max(0, l - c)

GovInit ==
    /\ limit \in 0..MaxLimit
    /\ count = 0
    /\ lock = 0
    /\ gpc = [t \in Threads |-> "idle"]
    /\ gop = [t \in Threads |-> "none"]
    /\ gret = [t \in Threads |-> "none"]
    /\ gseen = [t \in Threads |-> 0]
    /\ gstat = [limit0 |-> limit, started |-> 0, tries |-> 0, granted |-> 0,
                denied |-> 0, resets |-> 0, contended |-> FALSE]

\* a thread calls one of the governor's methods
GovCall(t, o) ==
    /\ gpc[t] = "idle"
    /\ gstat.started < MaxOps
    /\ gpc' = [gpc EXCEPT ![t] = "acquire"]
    /\ gop' = [gop EXCEPT ![t] = o]
    /\ gstat' = [gstat EXCEPT !.started = @ + 1,
                              !.contended = @ \/ lock # 0]
    /\ UNCHANGED <<limit, count, lock, gret, gseen>>
    /\ UNCHANGED notGovVars

\* `with self._lock:` -- entry
GovAcquire(t) ==
    /\ gpc[t] = "acquire"
    /\ LockFree(lock)
    /\ lock' = t
    /\ gseen' = [gseen EXCEPT ![t] = count]
    /\ gpc' = [gpc EXCEPT ![t] = "body"]
    /\ UNCHANGED <<limit, count, gop, gret, gstat>>
    /\ UNCHANGED notGovVars

\* try_increment: the test of the limit
TryIncrementCheck(t) ==
    /\ gpc[t] = "body"
    /\ gop[t] = "try_increment"
    /\ IF AtLimit(count, limit)
          THEN /\ gret' = [gret EXCEPT ![t] = FALSE]
               /\ gpc' = [gpc EXCEPT ![t] = "release"]
          ELSE /\ gret' = gret
               /\ gpc' = [gpc EXCEPT ![t] = "incr"]
    /\ UNCHANGED <<limit, count, lock, gop, gseen, gstat>>
    /\ UNCHANGED notGovVars

\* try_increment: the increment and `return True`
TryIncrementIncr(t) ==
    /\ gpc[t] = "incr"
    /\ count' = Incremented(count)
    /\ gret' = [gret EXCEPT ![t] = TRUE]
    /\ gpc' = [gpc EXCEPT ![t] = "release"]
    /\ UNCHANGED <<limit, lock, gop, gseen, gstat>>
    /\ UNCHANGED notGovVars

GetCount(t) ==
    /\ gpc[t] = "body"
    /\ gop[t] = "get_count"
    /\ gret' = [gret EXCEPT ![t] = count]
    /\ gpc' = [gpc EXCEPT ![t] = "release"]
    /\ UNCHANGED <<limit, count, lock, gop, gseen, gstat>>
    /\ UNCHANGED notGovVars

GetRemaining(t) ==
    /\ gpc[t] = "body"
    /\ gop[t] = "get_remaining"
    /\ gret' = [gret EXCEPT ![t] = Remaining(count, limit)]
    /\ gpc' = [gpc EXCEPT ![t] = "release"]
    /\ UNCHANGED <<limit, count, lock, gop, gseen, gstat>>
    /\ UNCHANGED notGovVars

Reset(t) ==
    /\ gpc[t] = "body"
    /\ gop[t] = "reset"
    /\ count' = 0
    /\ gpc' = [gpc EXCEPT ![t] = "release"]
    /\ gstat' = [gstat EXCEPT !.resets = @ + 1]
    /\ UNCHANGED <<limit, lock, gop, gret, gseen>>
    /\ UNCHANGED notGovVars

\* `with self._lock:` -- exit, and the return to the caller
GovRelease(t) ==
    /\ gpc[t] = "release"
    /\ lock' = 0
    /\ gpc' = [gpc EXCEPT ![t] = "idle"]
    /\ gstat' = [gstat EXCEPT
                   !.tries = IF gop[t] = "try_increment" THEN @ + 1 ELSE @,
                   !.granted = IF gop[t] = "try_increment" /\ gret[t] = TRUE
                                 THEN @ + 1 ELSE @,
                   !.denied = IF gop[t] = "try_increment" /\ gret[t] = FALSE
                                THEN @ + 1 ELSE @]
    \* the call's locals go away with its frame
    /\ gop' = [gop EXCEPT ![t] = "none"]
    /\ gret' = [gret EXCEPT ![t] = "none"]
    /\ gseen' = [gseen EXCEPT ![t] = 0]
    /\ UNCHANGED <<limit, count>>
    /\ UNCHANGED notGovVars

(***************************************************************************)
(* Call governor: GlobalManagedAgentCounter.                               *)
(* Every method body runs under self._lock and no other code touches       *)
(* limits or counts, so each method is one step.                           *)
(***************************************************************************)

ManagedNames == {"tabular_search_agent", "deep_search_agent"}
ToolThreads == 1..NumToolThreads
Calls == 1..MaxCalls

\* the dictionaries a constructor argument `limits` can be
LimitMaps ==
    UNION {[D -> 0..MaxCallLimit] : D \in SUBSET ManagedNames}

\* `if self.counts[agent_name] >= self.limits[agent_name]: return False`
CallAtLimitOffByOne(c, l) == c > l
CallAtLimit(c, l) == c >= l

\* GlobalManagedAgentCounter.try_increment: <<return value, counts afterwards>>
CounterTryIncrement(name) ==
    IF name \notin DOMAIN limits
       THEN <<TRUE, counts>>
       ELSE IF CallAtLimit(counts[name], limits[name])
               THEN <<FALSE, counts>>
               ELSE <<TRUE, [counts EXCEPT ![name] = @ + 1]>>

\* GlobalManagedAgentCounter.get_all_status
GetAllStatus ==
    [n \in DOMAIN limits |->
        [count |-> counts[n],
         limit |-> limits[n],
         remaining |-> Max(0, limits[n] - counts[n])]]

\* GlobalManagedAgentCounter.reset(agent_name); "all" stands for no argument
CounterReset(name) ==
    /\ DOMAIN limits # {}
    /\ tstat.resets < MaxResets
    /\ counts' = [n \in DOMAIN counts |->
                    IF name = "all" \/ name = n THEN 0 ELSE counts[n]]
    /\ tstat' = [tstat EXCEPT
                    !.resets = @ + 1,
                    !.was_reset =
                       @ \cup {n \in DOMAIN counts : name = "all" \/ name = n}]
    /\ UNCHANGED <<limits, managed_agents, agents, cpc, frame, result, glog>>
    /\ UNCHANGED notTeamVars

(***************************************************************************)
(* Agent objects.  0 is the main agent, 1 and 2 are the two managed agents *)
(* built by create_agent_team (the templates), 2 + c is the copy that call *)
(* c builds.                                                               *)
(***************************************************************************)

MainAgent == 0
Template(name) == IF name = "tabular_search_agent" THEN 1 ELSE 2
CopyId(c) == 2 + c
NoAgent == -1
TeamAgents == {MainAgent} \cup {Template(n) : n \in ManagedNames}
AgentIds == TeamAgents \cup {CopyId(c) : c \in Calls}

\* an object that has not been constructed
NoObject ==
    [memory |-> <<>>, step_number |-> 0, state |-> {}, built_from |-> NoAgent,
     tools |-> NoAgent]

\* an agent as create_agent_team constructs it, with a tool list of its own
NewAgent(id) ==
    [memory |-> <<>>, step_number |-> 0, state |-> {}, built_from |-> NoAgent,
     tools |-> id]

\* _create_agent_copy_for_call: the tools (and model, prompts, step limits)
\* are the original's own objects; memory, step_number and state are fresh
AgentCopy(original) ==
    [memory |-> <<>>, step_number |-> 0, state |-> {},
     built_from |-> original,
     tools |-> agents[original].tools]

NoFrame ==
    [call |-> 0, tool_name |-> "none", original_agent |-> NoAgent,
     agent_copy |-> NoAgent, original_ref |-> NoAgent, target |-> NoAgent]

NoResult == [kind |-> "none"]
NoDecision == [name |-> "none", rank |-> 0, granted |-> FALSE, kept |-> FALSE]

\* the agents and the binding as create_agent_team returns them
TeamBuilt ==
    /\ counts = [n \in DOMAIN limits |-> 0]
    /\ managed_agents = [n \in ManagedNames |-> Template(n)]
    /\ agents = [a \in AgentIds |->
                   IF a \in TeamAgents THEN NewAgent(a) ELSE NoObject]
    /\ cpc = [t \in ToolThreads |-> "idle"]
    /\ frame = [t \in ToolThreads |-> NoFrame]
    /\ result = [c \in Calls |-> NoResult]
    /\ glog = [c \in Calls |-> NoDecision]
    /\ tstat = [calls |-> 0,
                asked |-> [n \in ManagedNames |-> 0],
                started |-> [n \in ManagedNames |-> 0],
                resets |-> 0,
                was_reset |-> {}]

\* no team in play
TeamIdle == limits = << >> /\ TeamBuilt

\* create_agent_team with managed_agent_limits: an empty dictionary sets no
\* counter on the main agent
TeamInit == limits \in LimitMaps /\ TeamBuilt

(***************************************************************************)
(* MemoryManagedToolCallingAgent.execute_tool_call for a managed agent.    *)
(* The tool threads of one step run it concurrently; a thread can be       *)
(* preempted between any two statements that touch self.managed_agents.    *)
(***************************************************************************)

InCall(t) == cpc[t] # "idle"

\* the message of lines 294-333, by its parts
DenialMessage(name, all_status) ==
    [kind |-> "limit_reached",
     tool_name |-> name,
     limit |-> limits[name],
     status |-> all_status,
     available_agents |-> {n \in DOMAIN all_status : all_status[n].remaining > 0},
     finish_instruction |-> TRUE]

\* lines 281-285: the call enters and asks the call governor (if one is set)
Delegate(t, name) ==
    /\ cpc[t] = "idle"
    /\ tstat.calls < MaxCalls
    /\ LET c == tstat.calls + 1
           r == IF DOMAIN limits = {} THEN <<TRUE, counts>>
                                      ELSE CounterTryIncrement(name)
       IN  /\ counts' = r[2]
           /\ cpc' = [cpc EXCEPT ![t] = IF r[1] THEN "admitted" ELSE "denied"]
           /\ glog' = [glog EXCEPT ![c] = [name |-> name,
                                           rank |-> tstat.asked[name] + 1,
                                           granted |-> r[1],
                                           kept |-> r[2] = counts]]
           /\ frame' = [frame EXCEPT ![t] = [NoFrame EXCEPT !.call = c,
                                                            !.tool_name = name]]
    /\ tstat' = [tstat EXCEPT !.calls = @ + 1, !.asked[name] = @ + 1]
    /\ UNCHANGED <<limits, managed_agents, agents, result>>
    /\ UNCHANGED notTeamVars

\* lines 287-333: the denial message is built and returned
Deny(t) ==
    /\ cpc[t] = "denied"
    /\ result' = [result EXCEPT ![frame[t].call] =
                    DenialMessage(frame[t].tool_name, GetAllStatus)]
    /\ cpc' = [cpc EXCEPT ![t] = "idle"]
    /\ frame' = [frame EXCEPT ![t] = NoFrame]
    /\ UNCHANGED <<limits, counts, managed_agents, agents, glog, tstat>>
    /\ UNCHANGED notTeamVars

\* lines 336-337: read the binding, build the copy from what it holds
CreateCopy(t) ==
    /\ cpc[t] = "admitted"
    /\ LET original == managed_agents[frame[t].tool_name]
           copy == CopyId(frame[t].call)
       IN  /\ agents' = [agents EXCEPT ![copy] = AgentCopy(original)]
           /\ frame' = [frame EXCEPT ![t].original_agent = original,
                                     ![t].agent_copy = copy]
    /\ cpc' = [cpc EXCEPT ![t] = "copied"]
    /\ UNCHANGED <<limits, counts, managed_agents, result, glog, tstat>>
    /\ UNCHANGED notTeamVars

\* what the call does when the constructor of the copy raises, were it to
\* go on with the template in place of the copy
ShareTemplate(t) ==
    [pc |-> "copied",
     frame |-> [frame[t] EXCEPT
                  !.original_agent = managed_agents[frame[t].tool_name],
                  !.agent_copy = managed_agents[frame[t].tool_name]],
     result |-> NoResult]

\* line 337 raising: there is no try around it, the exception leaves
\* execute_tool_call before original_ref is read
CopyErrorRaised(t) ==
    [pc |-> "idle", frame |-> NoFrame, result |-> [kind |-> "copy_error"]]

\* lines 336-337 when type(original_agent)(**init_kwargs) raises
CreateCopyFails(t) ==
    /\ cpc[t] = "admitted"
    /\ LET after == CopyErrorRaised(t)
       IN  /\ cpc' = [cpc EXCEPT ![t] = after.pc]
           /\ result' = [result EXCEPT ![frame[t].call] = after.result]
           /\ frame' = [frame EXCEPT ![t] = after.frame]
    /\ UNCHANGED <<limits, counts, managed_agents, agents, glog, tstat>>
    /\ UNCHANGED notTeamVars

\* line 342: original_ref = self.managed_agents[tool_name]
SaveRef(t) ==
    /\ cpc[t] = "copied"
    /\ frame' = [frame EXCEPT
                   ![t].original_ref = managed_agents[frame[t].tool_name]]
    /\ cpc' = [cpc EXCEPT ![t] = "saved"]
    /\ UNCHANGED <<limits, counts, managed_agents, agents, result, glog, tstat>>
    /\ UNCHANGED notTeamVars

\* line 343: self.managed_agents[tool_name] = agent_copy
Substitute(t) ==
    /\ cpc[t] = "saved"
    /\ managed_agents' = [managed_agents EXCEPT
                            ![frame[t].tool_name] = frame[t].agent_copy]
    /\ cpc' = [cpc EXCEPT ![t] = "substituted"]
    /\ UNCHANGED <<limits, counts, agents, frame, result, glog, tstat>>
    /\ UNCHANGED notTeamVars

\* line 352: super().execute_tool_call looks the tool up by name in
\* self.managed_agents and calls what it finds
Dispatch(t) ==
    /\ cpc[t] = "substituted"
    /\ frame' = [frame EXCEPT
                   ![t].target = managed_agents[frame[t].tool_name]]
    /\ tstat' = [tstat EXCEPT !.started[frame[t].tool_name] = @ + 1]
    /\ cpc' = [cpc EXCEPT ![t] = "dispatched"]
    /\ UNCHANGED <<limits, counts, managed_agents, agents, result, glog>>
    /\ UNCHANGED notTeamVars

\* the called agent starts its run: its memory is reset and seeded with the
\* task of this call
RunStart(t) ==
    /\ cpc[t] = "dispatched"
    /\ agents' = [agents EXCEPT ![frame[t].target] =
                    [@ EXCEPT !.memory = <<frame[t].call>>,
                              !.step_number = 1,
                              !.state = {frame[t].call}]]
    /\ cpc' = [cpc EXCEPT ![t] = "running"]
    /\ UNCHANGED <<limits, counts, managed_agents, frame, result, glog, tstat>>
    /\ UNCHANGED notTeamVars

\* the called agent takes its last step, appends it to its memory and ends
\* the run; its report is written from that memory
RunFinish(t) ==
    /\ cpc[t] = "running"
    /\ LET after == Append(agents[frame[t].target].memory, frame[t].call)
       IN  /\ agents' = [agents EXCEPT ![frame[t].target] =
                           [@ EXCEPT !.memory = after,
                                     !.step_number = @ + 1]]
           /\ result' = [result EXCEPT ![frame[t].call] =
                           [kind |-> "report",
                            own |-> \A i \in 1..Len(after) :
                                        after[i] = frame[t].call]]
    /\ cpc' = [cpc EXCEPT ![t] = "ran"]
    /\ UNCHANGED <<limits, counts, managed_agents, frame, glog, tstat>>
    /\ UNCHANGED notTeamVars

\* line 355 (finally): self.managed_agents[tool_name] = original_ref
Restore(t) ==
    /\ cpc[t] = "ran"
    /\ managed_agents' = [managed_agents EXCEPT
                            ![frame[t].tool_name] = frame[t].original_ref]
    /\ cpc' = [cpc EXCEPT ![t] = "idle"]
    /\ frame' = [frame EXCEPT ![t] = NoFrame]
    /\ UNCHANGED <<limits, counts, agents, result, glog, tstat>>
    /\ UNCHANGED notTeamVars

(***************************************************************************)
(* The search and visit tools.  create_agent_team makes the tool lists of  *)
(* the main agent and of the two managed agents; GoogleSearchTool.forward  *)
(* and JinaBackedVisitWebpageTool.forward ask the tool's governor first.   *)
(***************************************************************************)

Kinds == {"search", "visit"}
None == -1

\* the governor objects a tool can hold: 0 is the one create_agent_team
\* constructs for the kind
GovernorIds == {0} \cup {1 + a : a \in TeamAgents}

\* create_search_tool / create_visit_tool: the governor handed to the tool
\* made for agent `owner`
GovernorPerTool(owner, k) == 1 + owner
GovernorOf(owner, k) == 0

ToolsIdle ==
    /\ tool_limit = [k \in Kinds |-> None]
    /\ tool_count = [k \in Kinds |-> [g \in GovernorIds |-> 0]]
    /\ tool_stat = [calls |-> 0,
                    passed |-> [k \in Kinds |-> 0],
                    refused |-> [k \in Kinds |-> 0],
                    users |-> {}]

\* lines 483-493: a governor is made for a kind only if a limit is given
ToolsInit ==
    /\ tool_limit \in [Kinds -> {None} \cup 0..MaxBudget]
    /\ tool_count = [k \in Kinds |-> [g \in GovernorIds |-> 0]]
    /\ tool_stat = [calls |-> 0,
                    passed |-> [k \in Kinds |-> 0],
                    refused |-> [k \in Kinds |-> 0],
                    users |-> {}]

\* forward() of the kind-k tool in the tool list of agent object `a`:
\* try_increment on the tool's governor, then the refusal or the request
ToolForward(a, k) ==
    /\ tool_stat.calls < MaxToolCalls
    /\ LET g == GovernorOf(agents[a].tools, k)
           governed == tool_limit[k] # None
           refuse == governed /\ AtLimit(tool_count[k][g], tool_limit[k])
       IN  /\ tool_count' =
                 IF governed /\ ~refuse
                    THEN [tool_count EXCEPT ![k][g] = Incremented(@)]
                    ELSE tool_count
           /\ tool_stat' =
                 [tool_stat EXCEPT
                    !.calls = @ + 1,
                    !.passed[k] = IF refuse THEN @ ELSE @ + 1,
                    !.refused[k] = IF refuse THEN @ + 1 ELSE @,
                    !.users = IF refuse THEN @ ELSE @ \cup {a}]
    /\ UNCHANGED tool_limit
    /\ UNCHANGED notToolVars

\* the main agent calls its own search or visit tool (line 358)
MainToolCall(k) == ToolForward(MainAgent, k)

\* a running managed agent (the object the dispatch resolved to) calls its
\* search or visit tool
SubToolCall(t, k) ==
    /\ cpc[t] = "running"
    /\ ToolForward(frame[t].target, k)

(***************************************************************************)
(* The table tool.  DBTableCodeToolInterface.forward("create_table", ...)  *)
(* asks the create-table governor, then DBTableCodeTool.create_table       *)
(* validates its arguments and writes the schema document.  Strings are    *)
(* sequences of one-character strings.                                     *)
(***************************************************************************)

Workers == 1..NumWorkers

\* GlobalCreateTableCounter(limit=1) in create_agent_team
CreateTableLimit == 1
\* the longest collection name _validate_table_name accepts
MaxTableNameLen == 100

\* the characters of valid_chars that occur in the names below
ValidChars == {"a", "b", "o", "s", "y", "t", "e", "m", "_", "-", ".", "$"}

\* the task ids (None is the empty string here: both are falsy), the table
\* names and the column_names strings the workers pass
TaskIds == {<<>>, <<"t">>}
TableNameArgs ==
    {<<"a">>, <<"b">>, <<"o">>, <<>>, <<"_", "a">>, <<"a", " ">>,
     <<"s", "y", "s", "t", "e", "m", ".", "a">>}
ColumnNamesArgs ==
    {<<>>, <<"a">>, <<"a", ",", " ", "b">>, <<",">>}

StartsWith(s, p) == Len(s) >= Len(p) /\ SubSeq(s, 1, Len(p)) = p

RECURSIVE LStrip(_)
LStrip(s) == IF s # <<>> /\ Head(s) = " " THEN LStrip(Tail(s)) ELSE s

RECURSIVE RStrip(_)
RStrip(s) ==
    IF s # <<>> /\ s[Len(s)] = " " THEN RStrip(SubSeq(s, 1, Len(s) - 1)) ELSE s

\* str.strip()
Strip(s) == RStrip(LStrip(s))

\* str.split(','): the pieces of s between the commas
RECURSIVE Split(_, _)
Split(s, piece) ==
    IF s = <<>> THEN <<piece>>
    ELSE IF Head(s) = "," THEN <<piece>> \o Split(Tail(s), <<>>)
    ELSE Split(Tail(s), Append(piece, Head(s)))

\* forward: [col.strip() for col in column_names.split(',')] if column_names
\* else []
ParseColumns(column_names) ==
    IF column_names = <<>> THEN <<>>
    ELSE LET pieces == Split(column_names, <<>>)
         IN  [i \in 1..Len(pieces) |-> Strip(pieces[i])]

\* create_table: f'{task_id}_{table_name}' if task_id else table_name
CollectionName(tid, table_name) ==
    IF tid # <<>> THEN tid \o <<"_">> \o table_name ELSE table_name

ValidateTableName(name) ==
    /\ name # <<>>
    /\ ~StartsWith(name, <<"_">>)
    /\ ~StartsWith(name, <<"s", "y", "s", "t", "e", "m", ".">>)
    /\ \A i \in 1..Len(name) : name[i] \in ValidChars
    /\ Len(name) <= MaxTableNameLen

\* the test of GlobalCreateTableCounter.try_increment
CreateTableAtLimitOffByOne(c, l) == c > l
CreateTableAtLimit(c, l) == c >= l

\* f with x removed from its domain / bound to v
Without(f, x) == [y \in DOMAIN f \ {x} |-> f[y]]
With(f, x, v) == [y \in DOMAIN f \cup {x} |-> IF y = x THEN v ELSE f[y]]

NoArgs == [operation |-> "none", table_name |-> <<>>, column_names |-> <<>>]
NoReturn == [kind |-> "none"]

\* the table left by an earlier run of the task (--no-clear-db)
OldTable(tid) == CollectionName(tid, <<"o">>)

WorkersIdle ==
    /\ wpc = [w \in Workers |-> "idle"]
    /\ wargs = [w \in Workers |-> NoArgs]
    /\ wret = [w \in Workers |-> NoReturn]
    /\ wreq = [w \in Workers |-> 0]
    /\ create_table_count = 0

EmptyStore == [n \in {} |-> <<>>]

TableIdle ==
    /\ task_id = <<>>
    /\ collections = EmptyStore
    /\ metadata = EmptyStore
    /\ WorkersIdle
    /\ tbl_stat = [admitted |-> {}, denied |-> {}, overlap |-> FALSE,
                   had_old |-> FALSE]

\* a fresh governor; the store is empty (clear_db) or holds the old table
TableInit ==
    /\ task_id \in TaskIds
    /\ \E old \in BOOLEAN :
          /\ collections = IF old THEN With(EmptyStore, OldTable(task_id), <<"a">>)
                                  ELSE EmptyStore
          /\ metadata = collections
          /\ tbl_stat = [admitted |-> {}, denied |-> {},
                        overlap |-> FALSE, had_old |-> old]
    /\ WorkersIdle

\* a worker calls forward("create_table", table_name, column_names)
TableCall(w, table_name, column_names) ==
    /\ wpc[w] = "idle"
    /\ wret[w] = NoReturn
    /\ wpc' = [wpc EXCEPT ![w] = "govern"]
    /\ wargs' = [wargs EXCEPT ![w] = [operation |-> "create_table",
                                      table_name |-> table_name,
                                      column_names |-> column_names]]
    /\ tbl_stat' = [tbl_stat EXCEPT
                      !.overlap = @ \/ \E v \in Workers \ {w} :
                                         wpc[v] \notin {"idle", "done"}]
    /\ UNCHANGED <<task_id, create_table_count, collections, metadata, wret,
                   wreq>>
    /\ UNCHANGED notTableVars

\* where a wrapper goes when try_increment returned False:
\* `if not counter.try_increment(): return (...)`
AfterDenialProceeds(operation) ==
    IF operation = "create_table" THEN "create" ELSE "request"
AfterDenial(operation) == "refuse"

\* create_table_counter.try_increment(), under the governor's lock
TableTryIncrement(w) ==
    /\ wpc[w] = "govern"
    /\ wargs[w].operation = "create_table"
    /\ IF CreateTableAtLimit(create_table_count, CreateTableLimit)
          THEN /\ wpc' = [wpc EXCEPT ![w] = AfterDenial("create_table")]
               /\ tbl_stat' = [tbl_stat EXCEPT !.denied = @ \cup {w}]
               /\ UNCHANGED create_table_count
          ELSE /\ wpc' = [wpc EXCEPT ![w] = "create"]
               /\ create_table_count' = create_table_count + 1
               /\ tbl_stat' = [tbl_stat EXCEPT !.admitted = @ \cup {w}]
    /\ UNCHANGED <<task_id, collections, metadata, wargs, wret, wreq>>
    /\ UNCHANGED notTableVars

\* the refusal string: the limit and get_count() at the time it is built
TableRefuse(w) ==
    /\ wpc[w] = "refuse"
    /\ wargs[w].operation = "create_table"
    /\ wpc' = [wpc EXCEPT ![w] = "done"]
    /\ wret' = [wret EXCEPT ![w] = [kind |-> "create_table_not_allowed",
                                    limit |-> CreateTableLimit,
                                    count |-> create_table_count]]
    /\ UNCHANGED <<task_id, create_table_count, collections, metadata, wargs,
                   wreq, tbl_stat>>
    /\ UNCHANGED notTableVars

StoreFailures == {"none", "list", "insert", "metadata"}

\* the store requests create_table gets to send: none if an argument is
\* rejected, else list_collection_names, insert_one, the metadata update
StoreRequests(rejected, fails) ==
    IF rejected THEN 0
    ELSE IF fails = "list" THEN 1
    ELSE IF fails = "insert" THEN 2
    ELSE 3

\* DBTableCodeTool.create_table(table_name, columns, task_id) in "full"
\* mode; `fails` is the store request that raises, if any
CreateTable(w, fails) ==
    /\ wpc[w] = "create"
    /\ wpc' = [wpc EXCEPT ![w] = "done"]
    /\ LET name == CollectionName(task_id, wargs[w].table_name)
           columns == ParseColumns(wargs[w].column_names)
           dropped == Without(collections, name)
           forgotten == Without(metadata, name)
           rejected == ~ValidateTableName(name) \/ columns = <<>>
       IN  /\ wreq' = [wreq EXCEPT ![w] = StoreRequests(rejected, fails)]
           /\ IF ~ValidateTableName(name)
                 THEN /\ wret' = [wret EXCEPT ![w] = [kind |-> "invalid_table_name",
                                                      name |-> name]]
                      /\ UNCHANGED <<collections, metadata>>
              ELSE IF columns = <<>>
                 THEN /\ wret' = [wret EXCEPT ![w] = [kind |-> "columns_empty"]]
                      /\ UNCHANGED <<collections, metadata>>
              ELSE IF fails = "list"
                 THEN /\ wret' = [wret EXCEPT ![w] = [kind |-> "mongo_error",
                                                      name |-> name]]
                      /\ UNCHANGED <<collections, metadata>>
              ELSE IF fails = "insert"
                 THEN /\ wret' = [wret EXCEPT ![w] = [kind |-> "mongo_error",
                                                      name |-> name]]
                      /\ collections' = dropped
                      /\ metadata' = forgotten
              ELSE /\ wret' = [wret EXCEPT ![w] = [kind |-> "created",
                                                   name |-> name,
                                                   columns |-> columns]]
                   /\ collections' = With(dropped, name, columns)
                   /\ metadata' = IF fails = "metadata" THEN forgotten
                                  ELSE With(forgotten, name, columns)
    /\ UNCHANGED <<task_id, create_table_count, wargs, tbl_stat>>
    /\ UNCHANGED notTableVars

(***************************************************************************)
(* The search and visit wrappers, statement by statement: a worker calls   *)
(* GoogleSearchTool.forward or JinaBackedVisitWebpageTool.forward, the     *)
(* wrapper asks its governor and then either returns the refusal or sends  *)
(* its requests.                                                           *)
(***************************************************************************)

\* what a call that was let through can end with
Outcomes(k) ==
    IF k = "search" THEN {"results", "fallback_results", "raised"}
                    ELSE {"content", "binary_type", "error_message"}

WrapperCall(w, k) ==
    /\ wpc[w] = "idle"
    /\ wret[w] = NoReturn
    /\ wpc' = [wpc EXCEPT ![w] = "govern"]
    /\ wargs' = [wargs EXCEPT ![w] = [NoArgs EXCEPT !.operation = k]]
    /\ tbl_stat' = [tbl_stat EXCEPT
                      !.overlap = @ \/ \E v \in Workers \ {w} :
                                         wpc[v] \notin {"idle", "done"}]
    /\ UNCHANGED <<task_id, create_table_count, collections, metadata, wret,
                   wreq>>
    /\ UNCHANGED <<govVars, teamVars, toolVars, compVars, schedVars,
                   poolVars,
          modelVars,
          recVars,
          lockVars,
          delVars,
          batchVars,
          addVars>>

\* `if self.global_search_counter is not None:` and try_increment()
WrapperTryIncrement(w) ==
    /\ wpc[w] = "govern"
    /\ wargs[w].operation \in Kinds
    /\ LET k == wargs[w].operation
           g == GovernorOf(MainAgent, k)
       IN  IF tool_limit[k] = None
              THEN /\ wpc' = [wpc EXCEPT ![w] = "request"]
                   /\ UNCHANGED <<tool_count, tbl_stat>>
           ELSE IF AtLimit(tool_count[k][g], tool_limit[k])
              THEN /\ wpc' = [wpc EXCEPT ![w] = AfterDenial(k)]
                   /\ tbl_stat' = [tbl_stat EXCEPT !.denied = @ \cup {w}]
                   /\ UNCHANGED tool_count
           ELSE /\ wpc' = [wpc EXCEPT ![w] = "request"]
                /\ tool_count' = [tool_count EXCEPT ![k][g] = Incremented(@)]
                /\ UNCHANGED tbl_stat
    /\ UNCHANGED <<task_id, create_table_count, collections, metadata, wargs,
                   wret, wreq>>
    /\ UNCHANGED <<govVars, teamVars, tool_limit, tool_stat, compVars,
                   schedVars, poolVars,
          modelVars,
          recVars,
          lockVars,
          delVars,
          batchVars,
          addVars>>

\* the refusal string, with get_remaining(), get_count() and limit read
\* when it is built
WrapperRefuse(w) ==
    /\ wpc[w] = "refuse"
    /\ wargs[w].operation \in Kinds
    /\ LET k == wargs[w].operation
           g == GovernorOf(MainAgent, k)
       IN  wret' = [wret EXCEPT ![w] =
                      [kind |-> "limit_reached",
                       current |-> tool_count[k][g],
                       limit |-> tool_limit[k],
                       remaining |-> Remaining(tool_count[k][g],
                                               tool_limit[k])]]
    /\ wpc' = [wpc EXCEPT ![w] = "done"]
    /\ UNCHANGED <<task_id, create_table_count, collections, metadata, wargs,
                   wreq, tbl_stat>>
    /\ UNCHANGED <<govVars, teamVars, toolVars, compVars, schedVars,
                   poolVars,
          modelVars,
          recVars,
          lockVars,
          delVars,
          batchVars,
          addVars>>

\* the search (with retries and the Jina fallback) or the page fetch: n
\* requests go out and the call ends with `outcome`
WrapperRequest(w, n, outcome) ==
    /\ wpc[w] = "request"
    /\ outcome \in Outcomes(wargs[w].operation)
    /\ wreq' = [wreq EXCEPT ![w] = n]
    /\ wret' = [wret EXCEPT ![w] = [kind |-> outcome]]
    /\ wpc' = [wpc EXCEPT ![w] = "done"]
    /\ UNCHANGED <<task_id, create_table_count, collections, metadata, wargs,
                   tbl_stat>>
    /\ UNCHANGED <<govVars, teamVars, toolVars, compVars, schedVars,
                   poolVars,
          modelVars,
          recVars,
          lockVars,
          delVars,
          batchVars,
          addVars>>

(***************************************************************************)
(* Context summarization (ContextSummarizationMixin).  A step of the       *)
(* memory is a record; `type` tells which of the other fields it uses.     *)
(* The agent is one thread: check the trigger, summarize with retries,     *)
(* replace the memory, then take the step.                                 *)
(***************************************************************************)

Tasks == {"task A", "task B"}
NoTask == "no task"

\* summary_max_retries: int = 5
DefaultMaxRetries == 5
RetryChoices == {0, 1, DefaultMaxRetries, MaxRetries}

NoSummary == [kind |-> "none", task |-> NoTask, retries |-> 0]
\* the content the summary model returned
Generated == [kind |-> "generated", task |-> NoTask, retries |-> 0]
\* "[摘要生成失败: request_api_detail 不可用] ... 原始任务: {self.task}"
FailedUnavailable(t) ==
    [kind |-> "failed_api_unavailable", task |-> t, retries |-> 0]
\* "[摘要生成失败: 经过 {n} 次重试后仍然失败] ... 原始任务: {self.task}"
FailedWithoutTask(t, n) ==
    [kind |-> "failed_after_retries", task |-> NoTask, retries |-> n]
FailedAfterRetries(t, n) ==
    [kind |-> "failed_after_retries", task |-> t, retries |-> n]

BlankStep ==
    [type |-> "none", task |-> NoTask, input_tokens |-> None,
     summary |-> NoSummary, summarized_steps_count |-> 0,
     tokens_before_summary |-> 0]
TaskStep(t) == [BlankStep EXCEPT !.type = "TaskStep", !.task = t]
ActionStep(tokens) ==
    [BlankStep EXCEPT !.type = "ActionStep", !.input_tokens = tokens]
PlanningStep(tokens) ==
    [BlankStep EXCEPT !.type = "PlanningStep", !.input_tokens = tokens]
SummaryStep(original_task, text, steps_count, tokens) ==
    [BlankStep EXCEPT !.type = "SummaryStep", !.task = original_task,
                      !.summary = text,
                      !.summarized_steps_count = steps_count,
                      !.tokens_before_summary = tokens]

\* what token_usage of a step can be: None or an input-token count
TokenUsages == {None} \cup 1..MaxTokens

\* _get_last_input_tokens: `for step in reversed(self.memory.steps)`
RECURSIVE FirstInputTokens(_)
FirstInputTokens(s) ==
    IF s = <<>> THEN 0
    ELSE IF Head(s).type \in {"ActionStep", "PlanningStep"}
            /\ Head(s).input_tokens # None
         THEN Head(s).input_tokens
         ELSE FirstInputTokens(Tail(s))

\* a reading that takes tokens_before_summary of a SummaryStep as a usage
RECURSIVE TokensWithSummaryStep(_)
TokensWithSummaryStep(s) ==
    IF s = <<>> THEN 0
    ELSE LET step == s[Len(s)]
         IN  IF step.type \in {"ActionStep", "PlanningStep"}
                /\ step.input_tokens # None
                THEN step.input_tokens
             ELSE IF step.type = "SummaryStep"
                THEN step.tokens_before_summary
             ELSE TokensWithSummaryStep(SubSeq(s, 1, Len(s) - 1))

RECURSIVE GetLastInputTokens(_)
GetLastInputTokens(s) ==
    IF s = <<>> THEN 0
    ELSE LET step == s[Len(s)]
         IN  IF step.type \in {"ActionStep", "PlanningStep"}
                /\ step.input_tokens # None
                THEN step.input_tokens
                ELSE GetLastInputTokens(SubSeq(s, 1, Len(s) - 1))

\* _count_action_steps
RECURSIVE CountActionSteps(_)
CountActionSteps(s) ==
    IF s = <<>> THEN 0
    ELSE (IF Head(s).type = "ActionStep" THEN 1 ELSE 0)
         + CountActionSteps(Tail(s))

\* the comparison of _should_summarize
OverThreshold(tokens, threshold) == tokens > threshold

ShouldSummarize(s) ==
    /\ OverThreshold(GetLastInputTokens(s), context_token_threshold)
    /\ CountActionSteps(s) >= min_steps_before_summary

Min(a, b) == IF a <= b THEN a ELSE b

\* wait_time = min(5 * attempt, 30)
WaitTimeUncapped(k) == 5 * k
WaitTime(k) == Min(5 * k, 30)

\* self.memory.reset()
MemoryNotReset(s) == s
MemoryAfterReset(s) == <<>>

\* `self.memory.steps.append(TaskStep(task=self.task))` after the SummaryStep
NoAnchor(t) == <<>>
AnchorStep(t) == <<TaskStep(t)>>

NoSnap ==
    [steps |-> <<>>, should |-> FALSE, task |-> NoTask, steps_count |-> 0,
     tokens_before |-> 0]

CompIdle ==
    /\ task = NoTask
    /\ steps = <<>>
    /\ context_token_threshold = 0
    /\ min_steps_before_summary = 0
    /\ summary_max_retries = 0
    /\ api_available = FALSE
    /\ spc = "idle"
    /\ step_number = 0
    /\ attempt = 0
    /\ waits = <<>>
    /\ summary = NoSummary
    /\ summarization_count = 0
    /\ snap = NoSnap

\* _init_summarization: the configuration of one agent
CompInit ==
    /\ task = NoTask
    /\ steps = <<>>
    /\ context_token_threshold \in 0..MaxThreshold
    /\ min_steps_before_summary \in 0..MaxMinSteps
    /\ summary_max_retries \in RetryChoices
    /\ api_available \in BOOLEAN
    /\ spc = "idle"
    /\ step_number = 0
    /\ attempt = 0
    /\ waits = <<>>
    /\ summary = NoSummary
    /\ summarization_count = 0
    /\ snap = NoSnap

\* run(task): the memory is reset and holds the TaskStep of the task
RunTask(t) ==
    /\ spc = "idle"
    /\ task' = t
    /\ steps' = <<TaskStep(t)>>
    /\ spc' = "ready"
    /\ UNCHANGED <<context_token_threshold, min_steps_before_summary,
                   summary_max_retries, api_available, step_number, attempt,
                   waits, summary, summarization_count, snap>>
    /\ UNCHANGED notCompVars

\* a planning step is appended before the step (planning_interval)
Plan(tokens) ==
    /\ spc = "ready"
    /\ step_number < MaxAgentSteps
    /\ steps[Len(steps)].type # "PlanningStep"
    /\ steps' = Append(steps, PlanningStep(tokens))
    /\ UNCHANGED <<task, context_token_threshold, min_steps_before_summary,
                   summary_max_retries, api_available, spc, step_number,
                   attempt, waits, summary, summarization_count, snap>>
    /\ UNCHANGED notCompVars

\* _step_stream: `if self._should_summarize():`
CheckTrigger ==
    /\ spc = "ready"
    /\ step_number < MaxAgentSteps
    /\ LET should == ShouldSummarize(steps)
       IN  /\ snap' = [NoSnap EXCEPT !.steps = steps, !.should = should]
           /\ spc' = IF should THEN "summarize" ELSE "act"
    /\ UNCHANGED <<task, steps, context_token_threshold,
                   min_steps_before_summary, summary_max_retries,
                   api_available, step_number, attempt, waits, summary,
                   summarization_count>>
    /\ UNCHANGED notCompVars

\* _perform_context_summarization up to the retry loop: the locals
\* tokens_before, steps_count and original_task are taken, and
\* _generate_context_summary returns at once if the API is not available
\* and after the empty loop if summary_max_retries allows no attempt
BeginSummarization ==
    /\ spc = "summarize"
    /\ snap' = [snap EXCEPT !.task = task,
                            !.steps_count = Len(steps),
                            !.tokens_before = GetLastInputTokens(steps)]
    /\ waits' = <<>>
    /\ IF ~api_available
          THEN /\ summary' = FailedUnavailable(task)
               /\ attempt' = 0
               /\ spc' = "replace"
       ELSE IF summary_max_retries < 1
          THEN /\ summary' = FailedAfterRetries(task, summary_max_retries)
               /\ attempt' = 0
               /\ spc' = "replace"
       ELSE /\ summary' = NoSummary
            /\ attempt' = 1
            /\ spc' = "attempt"
    /\ UNCHANGED <<task, steps, context_token_threshold,
                   min_steps_before_summary, summary_max_retries,
                   api_available, step_number, summarization_count>>
    /\ UNCHANGED notCompVars

ApiOutcomes == {"content", "status_not_200", "no_content", "exception"}

\* one pass of the loop body: _call_summary_api_once returns the content or
\* an error
Attempt(outcome) ==
    /\ spc = "attempt"
    /\ IF outcome = "content"
          THEN /\ summary' = Generated
               /\ spc' = "replace"
       ELSE IF attempt < summary_max_retries
          THEN /\ spc' = "sleep"
               /\ UNCHANGED summary
       ELSE /\ summary' = FailedAfterRetries(task, summary_max_retries)
            /\ spc' = "replace"
    /\ UNCHANGED <<task, steps, context_token_threshold,
                   min_steps_before_summary, summary_max_retries,
                   api_available, step_number, attempt, waits,
                   summarization_count, snap>>
    /\ UNCHANGED notCompVars

\* time.sleep(wait_time), then the next pass
Sleep ==
    /\ spc = "sleep"
    /\ waits' = Append(waits, WaitTime(attempt))
    /\ attempt' = attempt + 1
    /\ spc' = "attempt"
    /\ UNCHANGED <<task, steps, context_token_threshold,
                   min_steps_before_summary, summary_max_retries,
                   api_available, step_number, summary, summarization_count,
                   snap>>
    /\ UNCHANGED notCompVars

\* memory.reset(), then the SummaryStep and the TaskStep are appended; the
\* locals of the summarization go out of scope
ReplaceMemory ==
    /\ spc = "replace"
    /\ steps' = MemoryAfterReset(steps)
                 \o <<SummaryStep(snap.task, summary, snap.steps_count,
                                  snap.tokens_before)>>
                 \o AnchorStep(task)
    /\ summarization_count' = summarization_count + 1
    /\ attempt' = 0
    /\ waits' = <<>>
    /\ summary' = NoSummary
    /\ spc' = "act"
    /\ UNCHANGED <<task, context_token_threshold, min_steps_before_summary,
                   summary_max_retries, api_available, step_number, snap>>
    /\ UNCHANGED notCompVars

\* super()._step_stream: the step is taken and its ActionStep is appended;
\* the run ends with a final answer or goes on
Act(tokens, final) ==
    /\ spc = "act"
    /\ steps' = Append(steps, ActionStep(tokens))
    /\ step_number' = step_number + 1
    /\ spc' = IF final THEN "finished" ELSE "ready"
    /\ UNCHANGED <<task, context_token_threshold, min_steps_before_summary,
                   summary_max_retries, api_available, attempt, waits,
                   summary, summarization_count, snap>>
    /\ UNCHANGED notCompVars

(***************************************************************************)
(* The batch runner: run_single_task_with_timeout runs one task in a child *)
(* process, waits for it up to the timeout, and the result it returns goes *)
(* through postprocess_result.                                             *)
(***************************************************************************)

\* process.join(timeout=10) after terminate()
GraceWait == 10
\* process.join(timeout=5) after kill()
KillWait == 5
\* the clock stops here when a join has no timeout
MaxClock == MaxTimeout + GraceWait + KillWait + 2

Timeouts == 1..MaxTimeout

\* what a result dict says: its answer is "good", "error_prefixed" (it
\* begins with "Error:"), "tool_tags" (it holds tool-call text), "none"
\* (None), "empty" ("") or "tables" (the rendered tables); its error is
\* "none" (None) or a message; instance_id says that the dict has the key
BlankResult ==
    [instance_id |-> TRUE, timeout |-> FALSE, error |-> "none",
     answer |-> "none", source |-> "none", end_time |-> 0,
     recovered_from_tables |-> FALSE, api_error |-> FALSE,
     skip_recovery |-> FALSE]

\* what run_inference saves to the result file: an output that is not
\* empty and does not begin with "Error:"
SavedByRunInference ==
    { [BlankResult EXCEPT !.answer = "good", !.source = "child"],
      [BlankResult EXCEPT !.answer = "tool_tags", !.source = "child"] }

\* the results a child can build: what run_inference saved, the
\* "Error: ..." output of a run that failed, the None that run_inference
\* returns without an API key or a model, or the exception it raised
ChildResults ==
    SavedByRunInference
    \cup { [BlankResult EXCEPT !.answer = "error_prefixed",
                               !.source = "child"],
           [BlankResult EXCEPT !.source = "child"],
           [BlankResult EXCEPT !.error = "run_inference raised",
                               !.source = "child"] }

NoFile == [state |-> "absent", content |-> BlankResult]
UnreadableFile == [state |-> "unreadable", content |-> BlankResult]
SavedFile(r) == [state |-> "readable", content |-> r]

\* process.join(timeout): returns when the child has exited or the timeout
\* has passed
JoinWithoutTimeout(alive, waited, timeout) == ~alive
JoinReturns(alive, waited, timeout) == ~alive \/ waited >= timeout

\* the timeout of the join the supervising thread is in
JoinTimeout ==
    IF ppc = "join" THEN timeout_seconds
    ELSE IF ppc = "grace_join" THEN GraceWait
    ELSE KillWait

Joining == ppc \in {"join", "grace_join", "kill_join"}

\* the dict returned after a timeout
TimeoutResult(end) ==
    [BlankResult EXCEPT !.timeout = TRUE, !.error = "Task timeout",
                     !.source = "supervisor", !.end_time = end]

\* the dict returned when there is neither a queued result nor a file
NoResultError(end) ==
    [BlankResult EXCEPT !.error = "Process completed but returned no result",
                     !.source = "supervisor", !.end_time = end]

\* the dict returned when reading the queue raised
GetFailedError(end) ==
    [BlankResult EXCEPT !.error = "Error getting result",
                     !.source = "supervisor", !.end_time = end]

\* the file is opened and parsed
FileNeverReadable(f) == FALSE
FileReadable(f) == f.state = "readable"

\* is_result_valid
IsResultValid(r) ==
    /\ r.error = "none"
    /\ ~r.timeout
    /\ r.answer \notin {"none", "empty"}
    /\ r.answer # "error_prefixed"
    /\ r.answer # "tool_tags"

\* postprocess_result: a valid result is kept; with an API error in the log
\* the answer is emptied and nothing is recovered; else the tables of the
\* task, if there are any, become the answer
\* a postprocess_result that looks for tables before it looks at the log
RecoversDespiteApiError(r) ==
    IF ~r.instance_id THEN r
    ELSE IF IsResultValid(r) THEN r
    ELSE IF task_tables
            THEN [r EXCEPT !.answer = "tables",
                           !.recovered_from_tables = TRUE, !.error = "none"]
    ELSE IF api_error_in_log
            THEN [r EXCEPT !.answer = "empty", !.api_error = TRUE,
                           !.skip_recovery = TRUE]
    ELSE r

PostprocessResult(r) ==
    IF ~r.instance_id THEN r
    ELSE IF IsResultValid(r) THEN r
    ELSE IF api_error_in_log
            THEN [r EXCEPT !.answer = "empty", !.api_error = TRUE,
                           !.skip_recovery = TRUE]
    ELSE IF ~task_tables THEN r
    ELSE [r EXCEPT !.answer = "tables", !.recovered_from_tables = TRUE,
                   !.error = "none"]

\* postprocess_result opens the result file for writing: on the API-error
\* path and on the path that recovered tables
PostprocessWrites(r) ==
    /\ r.instance_id
    /\ ~IsResultValid(r)
    /\ api_error_in_log \/ task_tables

SchedIdle ==
    /\ timeout_seconds = 0
    /\ ppc = "idle"
    /\ now = 0
    /\ join_from = 0
    /\ process = "initial"
    /\ signals = <<>>
    /\ result_queue = <<>>
    /\ result_file = NoFile
    /\ task_tables = FALSE
    /\ api_error_in_log = FALSE
    /\ res = BlankResult

\* a task that has not run, or is run again over the result file of an
\* earlier run
SchedInit ==
    /\ timeout_seconds \in Timeouts
    /\ ppc = "idle"
    /\ now = 0
    /\ join_from = 0
    /\ process = "initial"
    /\ signals = <<>>
    /\ result_queue = <<>>
    /\ result_file \in {NoFile, UnreadableFile}
                       \cup {SavedFile(r) : r \in SavedByRunInference}
    /\ task_tables = FALSE
    /\ api_error_in_log = FALSE
    /\ res = BlankResult

\* the child is in run_inference, or has not put its result yet
ChildWorking == process = "alive" /\ result_queue = <<>>

\* the child exits after the put whatever the size of the result
ExitsWhateverTheSize(fits) == TRUE
\* the exit of the child joins the feeder thread of the queue
ExitAfterPut(fits) == fits

\* start_time = datetime.now(); process.start(); the join begins
StartProcess ==
    /\ ppc = "idle"
    /\ process' = "alive"
    /\ now' = 0
    /\ join_from' = 0
    /\ ppc' = "join"
    /\ UNCHANGED <<timeout_seconds, signals, result_queue, result_file,
                   task_tables, api_error_in_log, res>>
    /\ UNCHANGED notSchedVars

\* a second passes while the supervising thread is blocked in a join
Tick ==
    /\ Joining
    /\ now < MaxClock
    /\ ~JoinReturns(process = "alive", now - join_from, JoinTimeout)
    /\ now' = now + 1
    /\ UNCHANGED <<timeout_seconds, ppc, join_from, process, signals,
                   result_queue, result_file, task_tables, api_error_in_log,
                   res>>
    /\ UNCHANGED notSchedVars

\* run_inference saves the result file of the task
ChildSaveResult(r) ==
    /\ ChildWorking
    /\ r \in SavedByRunInference
    /\ result_file # SavedFile(r)
    /\ result_file' = SavedFile(r)
    /\ UNCHANGED <<timeout_seconds, ppc, now, join_from, process, signals,
                   result_queue, task_tables, api_error_in_log, res>>
    /\ UNCHANGED notSchedVars

\* a worker of the task creates a table
ChildCreateTable ==
    /\ ChildWorking
    /\ ~task_tables
    /\ task_tables' = TRUE
    /\ UNCHANGED <<timeout_seconds, ppc, now, join_from, process, signals,
                   result_queue, result_file, api_error_in_log, res>>
    /\ UNCHANGED notSchedVars

\* a model call of the task fails and the error is logged
ChildLogApiError ==
    /\ ChildWorking
    /\ ~api_error_in_log
    /\ api_error_in_log' = TRUE
    /\ UNCHANGED <<timeout_seconds, ppc, now, join_from, process, signals,
                   result_queue, result_file, task_tables, res>>
    /\ UNCHANGED notSchedVars

\* _run_single_task_in_process ends: result_queue.put(result) hands the
\* result to the feeder thread of the queue, and the process exits when the
\* feeder thread has written it to the pipe: at once if it fits in the
\* pipe, else when the supervisor reads the queue
ChildFinish(r, fits) ==
    /\ ChildWorking
    /\ result_queue' = <<[r EXCEPT !.end_time = now]>>
    /\ process' = IF ExitAfterPut(fits) THEN "exited" ELSE "alive"
    /\ UNCHANGED <<timeout_seconds, ppc, now, join_from, signals,
                   result_file, task_tables, api_error_in_log, res>>
    /\ UNCHANGED notSchedVars

\* the child ends without a put: it crashed, or a signal that was sent to
\* it took effect
ChildDies ==
    /\ ChildWorking \/ (process = "alive" /\ signals # <<>>)
    /\ process' = "exited"
    /\ UNCHANGED <<timeout_seconds, ppc, now, join_from, signals,
                   result_queue, result_file, task_tables, api_error_in_log,
                   res>>
    /\ UNCHANGED notSchedVars

\* process.join(timeout=timeout_seconds) returns; `if process.is_alive():`
\* process.terminate() and the grace join begins
JoinReturn ==
    /\ ppc = "join"
    /\ JoinReturns(process = "alive", now - join_from, JoinTimeout)
    /\ IF process = "alive"
          THEN /\ signals' = Append(signals, "SIGTERM")
               /\ join_from' = now
               /\ ppc' = "grace_join"
          ELSE /\ ppc' = "collect"
               /\ UNCHANGED <<signals, join_from>>
    /\ UNCHANGED <<timeout_seconds, now, process, result_queue, result_file,
                   task_tables, api_error_in_log, res>>
    /\ UNCHANGED notSchedVars

\* process.join(timeout=10) returns; `if process.is_alive():` process.kill()
\* and the last join begins, else the timeout result is returned
GraceJoinReturn ==
    /\ ppc = "grace_join"
    /\ JoinReturns(process = "alive", now - join_from, JoinTimeout)
    /\ IF process = "alive"
          THEN /\ signals' = Append(signals, "SIGKILL")
               /\ join_from' = now
               /\ ppc' = "kill_join"
               /\ UNCHANGED res
          ELSE /\ res' = TimeoutResult(now)
               /\ ppc' = "returned"
               /\ UNCHANGED <<signals, join_from>>
    /\ UNCHANGED <<timeout_seconds, now, process, result_queue, result_file,
                   task_tables, api_error_in_log>>
    /\ UNCHANGED notSchedVars

\* process.join(timeout=5) returns and the timeout result is returned
KillJoinReturn ==
    /\ ppc = "kill_join"
    /\ JoinReturns(process = "alive", now - join_from, JoinTimeout)
    /\ res' = TimeoutResult(now)
    /\ ppc' = "returned"
    /\ UNCHANGED <<timeout_seconds, now, join_from, process, signals,
                   result_queue, result_file, task_tables, api_error_in_log>>
    /\ UNCHANGED notSchedVars

\* the child exited in time: the queued result, else the result file, else
\* an error
Collect(get_ok) ==
    /\ ppc = "collect"
    /\ res' = IF result_queue # <<>>
                 THEN IF get_ok THEN [Head(result_queue) EXCEPT
                                         !.source = "queue",
                                         !.end_time = now]
                      ELSE GetFailedError(now)
              ELSE IF result_file.state # "absent"
                      /\ FileReadable(result_file)
                 THEN [result_file.content EXCEPT !.timeout = FALSE,
                                                  !.source = "file",
                                                  !.end_time = now]
              ELSE NoResultError(now)
    /\ result_queue' = <<>>
    /\ ppc' = "returned"
    /\ UNCHANGED <<timeout_seconds, now, join_from, process, signals,
                   result_file, task_tables, api_error_in_log>>
    /\ UNCHANGED notSchedVars

\* run_widesearch_batch: postprocess_result on the returned result; a
\* changed result is saved to the result file if the file can be written
Postprocess(saved) ==
    /\ ppc = "returned"
    /\ res' = PostprocessResult(res)
    /\ result_file' = IF PostprocessWrites(res) /\ saved
                          THEN SavedFile(res')
                      ELSE result_file
    /\ ppc' = "done"
    /\ UNCHANGED <<timeout_seconds, now, join_from, process, signals,
                   result_queue, task_tables, api_error_in_log>>
    /\ UNCHANGED notSchedVars

\* what one result adds to completed, timeout_count and error_count at the
\* end of the batch
BatchCounts(r) ==
    [completed |-> IF r.answer \notin {"none", "empty"} /\ r.error = "none"
                      THEN 1 ELSE 0,
     timeout_count |-> IF r.timeout THEN 1 ELSE 0,
     error_count |-> IF r.error # "none" /\ ~r.timeout THEN 1 ELSE 0]

\* `str(answer).startswith("Error:")`
StartsWithError(answer) == answer = "error_prefixed"

\* contains_tool_tags: one of the tool-call patterns is found in the text
NoToolTags(answer) == FALSE
ContainsToolTags(answer) == answer = "tool_tags"

\* is_task_completed: the result file exists, can be parsed, and its answer
\* is not empty, does not begin with "Error:" and holds no tool-call text
IsTaskCompleted(f) ==
    IF f.state = "absent" THEN FALSE
    ELSE IF f.state = "unreadable" THEN FALSE
    ELSE LET answer == f.content.answer
         IN  IF answer \in {"none", "empty"} THEN FALSE
             ELSE IF StartsWithError(answer) THEN FALSE
             ELSE IF ContainsToolTags(answer) THEN FALSE
             ELSE TRUE

\* a result as it is written to a file: without the model's bookkeeping
AsWritten(r) == [r EXCEPT !.source = "none", !.end_time = 0]

\* what run_single_task_with_timeout can return over the result files
\* `files`, and what postprocess_result saves of it
ReturnedOver(files) ==
    {TimeoutResult(0), NoResultError(0), GetFailedError(0)}
    \cup ChildResults
    \cup {[r EXCEPT !.timeout = FALSE] : r \in files}

SavedByPostprocess(files) ==
    LET invalid == {r \in ReturnedOver(files) : ~IsResultValid(r)}
    IN  {[r EXCEPT !.answer = "empty", !.api_error = TRUE,
                   !.skip_recovery = TRUE] : r \in invalid}
        \cup {[r EXCEPT !.answer = "tables",
                        !.recovered_from_tables = TRUE,
                        !.error = "none"] : r \in invalid}

\* the result files that `batches` batch runs can leave behind
RECURSIVE ResultsOnDisk(_)
ResultsOnDisk(batches) ==
    IF batches = 0 THEN {}
    ELSE LET before == ResultsOnDisk(batches - 1)
         IN  {AsWritten(r) : r \in SavedByRunInference
                                   \cup before
                                   \cup SavedByPostprocess(before)}

\* a task of a batch that follows MaxBatches earlier batches
SkipInit ==
    /\ timeout_seconds = 1
    /\ ppc = "idle"
    /\ now = 0
    /\ join_from = 0
    /\ process = "initial"
    /\ signals = <<>>
    /\ result_queue = <<>>
    /\ result_file \in {NoFile, UnreadableFile}
                       \cup {SavedFile(r) : r \in ResultsOnDisk(MaxBatches)}
    /\ task_tables \in BOOLEAN
    /\ api_error_in_log \in BOOLEAN
    /\ res = BlankResult

\* run_widesearch_batch with skip_completed: the task is left out of the
\* examples
SkipCompleted ==
    /\ ppc = "idle"
    /\ IsTaskCompleted(result_file)
    /\ ppc' = "skipped"
    /\ UNCHANGED <<timeout_seconds, now, join_from, process, signals,
                   result_queue, result_file, task_tables, api_error_in_log,
                   res>>
    /\ UNCHANGED notSchedVars

\* the task stays in the examples and is submitted
SubmitTask(skip_completed) ==
    /\ ~(skip_completed /\ IsTaskCompleted(result_file))
    /\ StartProcess

\* the dicts postprocess_result is called with: what
\* run_single_task_with_timeout returns, and dicts without "instance_id"
PostprocessArgs ==
    {[r EXCEPT !.instance_id = i] :
        r \in ReturnedOver(SavedByRunInference), i \in BOOLEAN}

PostInit ==
    /\ timeout_seconds = 1
    /\ ppc = "returned"
    /\ now = 0
    /\ join_from = 0
    /\ process = "exited"
    /\ signals = <<>>
    /\ result_queue = <<>>
    /\ result_file \in {NoFile}
                       \cup {SavedFile(r) : r \in SavedByRunInference}
    /\ task_tables \in BOOLEAN
    /\ api_error_in_log \in BOOLEAN
    /\ res \in PostprocessArgs

\* run_deepsearch_batch: `results.append(result)`, nothing is recovered
AppendResult ==
    /\ ppc = "returned"
    /\ ppc' = "done"
    /\ UNCHANGED <<timeout_seconds, now, join_from, process, signals,
                   result_queue, result_file, task_tables, api_error_in_log,
                   res>>
    /\ UNCHANGED notSchedVars

(***************************************************************************)
(* The thread pool of the batch runner: max_workers threads, each running *)
(* run_single_task_with_timeout for one task at a time.  A join returns   *)
(* when the child has exited or, at some moment, because its timeout has  *)
(* passed.                                                                *)
(***************************************************************************)

PoolThreads == 1..MaxWorkers
BatchTasks == 1..NumTasks
\* a pool thread without a task
NoWork == 0

PoolIdle ==
    /\ max_workers = 0
    /\ worker_task = [w \in PoolThreads |-> NoWork]
    /\ task_state = [t \in BatchTasks |-> "queued"]
    /\ child_alive = [t \in BatchTasks |-> FALSE]
    /\ pool_signals = [t \in BatchTasks |-> <<>>]

\* ThreadPoolExecutor(max_workers=max_workers) with every task submitted
PoolInit ==
    /\ max_workers \in 1..MaxWorkers
    /\ worker_task = [w \in PoolThreads |-> NoWork]
    /\ task_state = [t \in BatchTasks |-> "queued"]
    /\ child_alive = [t \in BatchTasks |-> FALSE]
    /\ pool_signals = [t \in BatchTasks |-> <<>>]

\* a free thread of the pool takes the next task: process.start() and the
\* join on the timeout begins
TakeTask(w, t) ==
    /\ w <= max_workers
    /\ worker_task[w] = NoWork
    /\ task_state[t] = "queued"
    /\ \A u \in BatchTasks : u < t => task_state[u] # "queued"
    /\ worker_task' = [worker_task EXCEPT ![w] = t]
    /\ task_state' = [task_state EXCEPT ![t] = "join"]
    /\ child_alive' = [child_alive EXCEPT ![t] = TRUE]
    /\ UNCHANGED <<max_workers, pool_signals>>
    /\ UNCHANGED notPoolVars

\* the process of a task ends: it finished, crashed, or a signal took effect
PoolChildExit(t) ==
    /\ child_alive[t]
    /\ child_alive' = [child_alive EXCEPT ![t] = FALSE]
    /\ UNCHANGED <<max_workers, worker_task, task_state, pool_signals>>
    /\ UNCHANGED notPoolVars

\* the thread's run_single_task_with_timeout returns and the thread is free
ReturnFrom(w, t) ==
    /\ worker_task' = [worker_task EXCEPT ![w] = NoWork]
    /\ task_state' = [task_state EXCEPT ![t] = "returned"]

\* the join in progress returns: with the child alive the next signal is
\* sent (terminate after the first join, kill after the second); after the
\* third join, and with the child gone, the function returns
PoolJoinReturn(w) ==
    /\ worker_task[w] # NoWork
    /\ LET t == worker_task[w]
       IN  IF task_state[t] = "join" /\ child_alive[t]
              THEN /\ pool_signals' =
                          [pool_signals EXCEPT ![t] = <<"SIGTERM">>]
                   /\ task_state' = [task_state EXCEPT ![t] = "grace_join"]
                   /\ UNCHANGED worker_task
           ELSE IF task_state[t] = "grace_join" /\ child_alive[t]
              THEN /\ pool_signals' =
                          [pool_signals EXCEPT
                              ![t] = <<"SIGTERM", "SIGKILL">>]
                   /\ task_state' = [task_state EXCEPT ![t] = "kill_join"]
                   /\ UNCHANGED worker_task
           ELSE /\ ReturnFrom(w, t)
                /\ UNCHANGED pool_signals
    /\ UNCHANGED <<max_workers, child_alive>>
    /\ UNCHANGED notPoolVars

(***************************************************************************)
(* One call of OpenAIServerModel.generate or generate_stream: the loop     *)
(* around client.chat.completions.create.  What the endpoint answers is    *)
(* the environment's choice.                                               *)
(***************************************************************************)

\* max_retries of generate and generate_stream
ModelMaxRetries == 10
\* random.uniform(10.0, 20.0)
SleepMin == 10
SleepMax == 20
\* the sleep times the model draws from the interval
SleepTimes == {SleepMin, (SleepMin + SleepMax) \div 2, SleepMax}

\* the exceptions client.chat.completions.create and the stream can raise
ModelErrors ==
    {"BadRequestError", "RateLimitError", "APIConnectionError",
     "APITimeoutError", "IndexError", "TokenUsageComputeError", "ValueError"}

NoError == "none"

\* is_blank_or_limit_error or is_index_error or is_token_usage_compute_error
IsRetryable(e) ==
    e \in {"BadRequestError", "IndexError", "TokenUsageComputeError"}

ModelIdle ==
    /\ mpc = "idle"
    /\ m_stream = FALSE
    /\ m_attempt = 0
    /\ m_error = NoError
    /\ m_sleeps = 0
    /\ m_sleep_time = 0

\* generate(...) or generate_stream(...) is called: attempt = 0
ModelInit ==
    /\ mpc = "create"
    /\ m_stream \in BOOLEAN
    /\ m_attempt = 0
    /\ m_error = NoError
    /\ m_sleeps = 0
    /\ m_sleep_time = 0

\* create(...) answers: generate returns the message, generate_stream
\* leaves the loop and iterates over the stream
CreateSucceeds ==
    /\ mpc = "create"
    /\ mpc' = IF m_stream THEN "stream" ELSE "returned"
    /\ m_error' = NoError
    /\ UNCHANGED <<m_stream, m_attempt, m_sleeps, m_sleep_time>>
    /\ UNCHANGED notModelVars

\* create(...) raises e: sleep and continue when e is retryable and
\* attempt < max_retries - 1, re-raise otherwise
CreateFails(e, sleep_time) ==
    /\ mpc = "create"
    /\ m_error' = e
    /\ IF IsRetryable(e) /\ m_attempt < ModelMaxRetries - 1
          THEN /\ mpc' = "sleep"
               /\ m_sleep_time' = sleep_time
               /\ m_sleeps' = m_sleeps + 1
          ELSE /\ mpc' = "raised"
               /\ UNCHANGED <<m_sleeps, m_sleep_time>>
    /\ UNCHANGED <<m_stream, m_attempt>>
    /\ UNCHANGED notModelVars

\* time.sleep(sleep_time) returns; continue with the next attempt
NextAttempt ==
    /\ mpc = "sleep"
    /\ mpc' = "create"
    /\ m_attempt' = m_attempt + 1
    /\ UNCHANGED <<m_stream, m_error, m_sleeps, m_sleep_time>>
    /\ UNCHANGED notModelVars

\* the stream of generate_stream has been consumed
StreamEnds ==
    /\ mpc = "stream"
    /\ mpc' = "returned"
    /\ UNCHANGED <<m_stream, m_attempt, m_error, m_sleeps, m_sleep_time>>
    /\ UNCHANGED notModelVars

\* an event of the stream raises: the iteration is outside the retry loop
StreamFails(e) ==
    /\ mpc = "stream"
    /\ mpc' = "raised"
    /\ m_error' = e
    /\ UNCHANGED <<m_stream, m_attempt, m_sleeps, m_sleep_time>>
    /\ UNCHANGED notModelVars

(***************************************************************************)
(* The records of one table of DBTableCodeTool: add_records, update_record *)
(* and update_records on a collection whose schema document declares the   *)
(* columns.  A document is a function from field names to values; None is  *)
(* the value "null".                                                       *)
(***************************************************************************)

FieldNames == {"id", "note", "x"}
\* the schemas create_table has declared
Schemas == {<<"id">>, <<"id", "note">>}

\* the dictionaries the calls are given: every choice of fields with a
\* value or None, some with an empty string, some with an "_id"
DictsOver(values) ==
    UNION {[d -> values] : d \in SUBSET FieldNames}
PlainRecords == DictsOver({"null", "v"}) \ {<<>>}
EmptyStringRecords ==
    {[k \in {"x"} |-> ""], [k \in {"id"} |-> ""],
     [k \in {"id", "x"} |-> IF k = "id" THEN "v" ELSE ""]}
RecordsWithId ==
    {[k \in DOMAIN r \cup {"_id"} |-> IF k = "_id" THEN "k1" ELSE r[k]] :
        r \in DictsOver({"v"})}
RecordArgs ==
    PlainRecords \cup EmptyStringRecords \cup RecordsWithId \cup {<<>>}
\* the records handed to add_records in a list of two
PairArgs == DictsOver({"v"}) \ {<<>>}
RecordLists ==
    {<<>>} \cup {<<r>> : r \in RecordArgs}
           \cup {<<q, r>> : q \in PairArgs, r \in PairArgs}
UpdateArgs ==
    PairArgs \cup {<<>>, [k \in {"id"} |-> "null"], [k \in {"note"} |-> ""],
                   [k \in {"_id"} |-> "k1"]}
FilterArgs == {<<>>, [k \in {"id"} |-> "v"], [k \in {"note"} |-> "null"]}

\* the _id the store gives the n-th document inserted without one
GeneratedId(n) == "g" \o ToString(n)

SetOf(seq) == {seq[i] : i \in 1..Len(seq)}

NoReport == [kind |-> "none", named |-> {}, inserted |-> 0]

\* _validate_record_data: a non-empty dictionary (keys are strings)
ValidateRecordData(r) == DOMAIN r # {}

\* any(v is not None and v != "" for k, v in record.items() if k != "_id")
HasData(r) == \E k \in DOMAIN r \ {"_id"} : r[k] \notin {"null", ""}

\* set(record.keys()) - expected_columns - {"_id"}
ColumnsNotInSchema(r, columns) == (DOMAIN r \ {"_id"}) \ SetOf(columns)

\* processed_record: _id if present, every expected column, None if missing
ProcessedRecord(r, columns) ==
    [k \in SetOf(columns) \cup (DOMAIN r \cap {"_id"}) |->
        IF k \in DOMAIN r THEN r[k] ELSE "null"]

\* has_data_in_original and not has_data_in_processed and
\* columns_not_in_schema
ColumnMismatch(r, columns) ==
    /\ HasData(r)
    /\ ~HasData(ProcessedRecord(r, columns))
    /\ ColumnsNotInSchema(r, columns) # {}

\* the equality filter of find_one / update_one / update_many: None matches
\* a null or missing field
Matches(doc, q) ==
    \A k \in DOMAIN q :
        IF q[k] = "null"
           THEN k \notin DOMAIN doc \/ doc[k] = "null"
           ELSE k \in DOMAIN doc /\ doc[k] = q[k]

\* non_none_fields of a processed record
NonNoneFields(p) == {k \in DOMAIN p \ {"_id"} : p[k] # "null"}

\* an add_records that looks no record up
InsertsWithoutLookup(r, columns, docs) ==
    LET p == ProcessedRecord(r, columns)
    IN  IF ColumnMismatch(r, columns) THEN "mismatch"
        ELSE IF "_id" \in DOMAIN p THEN "insert"
        ELSE IF NonNoneFields(p) = {} THEN "all_fields_none"
        ELSE "insert"

\* what add_records does with one record of records_data
Disposition(r, columns, docs) ==
    LET p == ProcessedRecord(r, columns)
        by_fields == [k \in NonNoneFields(p) |-> p[k]]
    IN  IF ColumnMismatch(r, columns) THEN "mismatch"
        ELSE IF "_id" \in DOMAIN p
           THEN IF \E i \in 1..Len(docs) : docs[i]["_id"] = p["_id"]
                   THEN "duplicate" ELSE "insert"
        ELSE IF NonNoneFields(p) = {} THEN "all_fields_none"
        ELSE IF \E i \in 1..Len(docs) : Matches(docs[i], by_fields)
           THEN "duplicate" ELSE "insert"

\* insert_many(records_to_insert, ordered=False), then one by one: a record
\* whose _id the collection already holds is not inserted
RECURSIVE InsertMany(_, _)
InsertMany(docs, to_insert) ==
    IF to_insert = <<>> THEN docs
    ELSE LET p == Head(to_insert)
             doc == IF "_id" \in DOMAIN p THEN p
                    ELSE [k \in DOMAIN p \cup {"_id"} |->
                            IF k = "_id" THEN GeneratedId(Len(docs) + 1)
                            ELSE p[k]]
         IN  IF \E i \in 1..Len(docs) : docs[i]["_id"] = doc["_id"]
                THEN InsertMany(docs, Tail(to_insert))
                ELSE InsertMany(Append(docs, doc), Tail(to_insert))

\* the field names the text returned by add_records contains: the
\* mismatched_columns of the mismatch section, the fields of the skipped
\* duplicates and the non-empty fields of the inserted originals
NamedByAddRecords(records_data, columns, docs) ==
    UNION {LET r == records_data[i]
               d == Disposition(r, columns, docs)
           IN  IF d = "mismatch"
                  THEN DOMAIN r \ {"_id"}
               ELSE IF d = "duplicate"
                  THEN NonNoneFields(ProcessedRecord(r, columns))
               ELSE IF d = "insert"
                  THEN {k \in DOMAIN r \ {"_id"} : r[k] \notin {"null", ""}}
               ELSE {} : i \in 1..Len(records_data)}

\* the fields outside the schema a call supplied
OffSchema(dicts, columns) ==
    UNION {DOMAIN d \ (SetOf(columns) \cup {"_id"}) : d \in dicts}

RecIdle ==
    /\ table_exists = FALSE
    /\ schema_columns = <<>>
    /\ records = <<>>
    /\ rec_op = "none"
    /\ rec_off = {}
    /\ rec_report = NoReport

\* a table create_table has made, or a name no table has
RecInit ==
    /\ table_exists \in BOOLEAN
    /\ schema_columns \in Schemas
    /\ table_exists = FALSE => schema_columns = <<"id">>
    /\ records = <<>>
    /\ rec_op = "none"
    /\ rec_off = {}
    /\ rec_report = NoReport

\* DBTableCodeTool.add_records(table_name, records_data)
AddRecords(records_data) ==
    /\ rec_op' = "add_records"
    /\ rec_off' = OffSchema(SetOf(records_data), schema_columns)
    /\ IF \/ records_data = <<>>
          \/ \E i \in 1..Len(records_data) :
                ~ValidateRecordData(records_data[i])
          THEN /\ rec_report' = [NoReport EXCEPT !.kind = "invalid_records"]
               /\ UNCHANGED records
       ELSE IF ~table_exists
          THEN /\ rec_report' = [NoReport EXCEPT !.kind = "no_table"]
               /\ UNCHANGED records
       ELSE LET kept == SelectSeq(records_data,
                          LAMBDA r : Disposition(r, schema_columns, records)
                                        = "insert")
                to_insert == [i \in 1..Len(kept) |->
                                 ProcessedRecord(kept[i], schema_columns)]
                stored == InsertMany(records, to_insert)
            IN  /\ Len(stored) <= MaxRecords
                /\ records' = stored
                /\ rec_report' =
                      [kind |-> "report",
                       named |-> NamedByAddRecords(records_data,
                                                   schema_columns, records),
                       inserted |-> Len(stored) - Len(records)]
    /\ UNCHANGED <<table_exists, schema_columns>>
    /\ UNCHANGED notRecVars

\* update_one / update_many with {"$set": updates} on the chosen documents
SetFields(doc, updates) ==
    [k \in DOMAIN doc \cup DOMAIN updates |->
        IF k \in DOMAIN updates THEN updates[k] ELSE doc[k]]

\* the checks update_record and update_records share: the error returned,
\* "none" if the update goes ahead
UpdateRefusal(updates) ==
    IF ~ValidateRecordData(updates) THEN "invalid_update"
    ELSE IF ~table_exists THEN "no_table"
    ELSE "none"

\* DBTableCodeTool.update_record(table_name, record_id, updates, id_column)
UpdateRecord(record_id, updates, id_column) ==
    /\ rec_op' = "update_record"
    /\ rec_off' = OffSchema({updates}, schema_columns)
    /\ LET invalid_columns == DOMAIN updates \ SetOf(schema_columns)
           matched == {i \in 1..Len(records) :
                          Matches(records[i],
                                  [k \in {id_column} |-> record_id])}
           first == CHOOSE i \in matched : \A j \in matched : i <= j
       IN  IF UpdateRefusal(updates) # "none"
              THEN /\ rec_report' =
                         [NoReport EXCEPT !.kind = UpdateRefusal(updates)]
                   /\ UNCHANGED records
           ELSE IF id_column \notin SetOf(schema_columns)
              THEN /\ rec_report' =
                         [NoReport EXCEPT !.kind = "no_id_column"]
                   /\ UNCHANGED records
           ELSE IF invalid_columns # {}
              THEN /\ rec_report' = [kind |-> "invalid_columns",
                                     named |-> invalid_columns,
                                     inserted |-> 0]
                   /\ UNCHANGED records
           ELSE IF matched = {}
              THEN /\ rec_report' = [NoReport EXCEPT !.kind = "no_match"]
                   /\ UNCHANGED records
           ELSE /\ records' = [records EXCEPT
                                  ![first] = SetFields(records[first],
                                                       updates)]
                /\ rec_report' = [kind |-> "updated",
                                  named |-> DOMAIN updates,
                                  inserted |-> 0]
    /\ UNCHANGED <<table_exists, schema_columns>>
    /\ UNCHANGED notRecVars

\* DBTableCodeTool.update_records(table_name, filter_query, updates)
UpdateRecords(filter_query, updates) ==
    /\ rec_op' = "update_records"
    /\ rec_off' = OffSchema({updates}, schema_columns)
    /\ LET invalid_columns == DOMAIN updates \ SetOf(schema_columns)
           matched == {i \in 1..Len(records) :
                          Matches(records[i], filter_query)}
       IN  IF UpdateRefusal(updates) # "none"
              THEN /\ rec_report' =
                         [NoReport EXCEPT !.kind = UpdateRefusal(updates)]
                   /\ UNCHANGED records
           ELSE IF invalid_columns # {}
              THEN /\ rec_report' = [kind |-> "invalid_columns",
                                     named |-> invalid_columns,
                                     inserted |-> 0]
                   /\ UNCHANGED records
           ELSE IF matched = {}
              THEN /\ rec_report' = [NoReport EXCEPT !.kind = "no_match"]
                   /\ UNCHANGED records
           ELSE /\ records' = [i \in 1..Len(records) |->
                                  IF i \in matched
                                     THEN SetFields(records[i], updates)
                                     ELSE records[i]]
                /\ rec_report' = [NoReport EXCEPT !.kind = "updated"]
    /\ UNCHANGED <<table_exists, schema_columns>>
    /\ UNCHANGED notRecVars

(***************************************************************************)
(* The locks of the governors of one task: GlobalSearchCounter,            *)
(* GlobalVisitCounter, GlobalCreateTableCounter and                        *)
(* GlobalManagedAgentCounter each hold a threading.Lock of their own, and  *)
(* every method runs inside `with self._lock`.  A tool thread makes the    *)
(* governor calls of a tool call one after the other.                      *)
(***************************************************************************)

Governors == {"search", "visit", "create_table", "call"}
NoThread == 0

\* get_all_status written with the getters of the governor
StatusThroughGetters(gov, op) ==
    IF op = "get_all_status" THEN <<<<gov, "get_count">>>> ELSE <<>>

\* the governor methods a method calls while it holds the lock: the method
\* bodies read and write the fields of their own object and call none
LocksTakenInside(gov, op) == <<>>

\* the governor calls of one tool call, in program order
SearchCalls ==
    <<<<"search", "try_increment">>, <<"search", "get_remaining">>,
      <<"search", "get_count">>>>
VisitCalls ==
    <<<<"visit", "try_increment">>, <<"visit", "get_remaining">>,
      <<"visit", "get_count">>>>
CreateTableCalls(denied) ==
    IF denied
       THEN <<<<"create_table", "try_increment">>,
              <<"create_table", "get_count">>>>
       ELSE <<<<"create_table", "try_increment">>>>
DelegationCalls(denied) ==
    IF denied
       THEN <<<<"call", "try_increment">>, <<"call", "get_count">>,
              <<"call", "get_limit">>, <<"call", "get_remaining">>,
              <<"call", "get_all_status">>>>
       ELSE <<<<"call", "try_increment">>>>
ToolCallPaths ==
    {SearchCalls, VisitCalls, <<<<"call", "get_statistics">>>>}
        \cup {CreateTableCalls(d) : d \in BOOLEAN}
        \cup {DelegationCalls(d) : d \in BOOLEAN}
        \cup {<<<<g, "reset">>>> : g \in Governors}

LocksIdle ==
    /\ locks = [g \in Governors |-> NoThread]
    /\ lpc = [t \in ToolThreads |-> "off"]
    /\ todo = [t \in ToolThreads |-> <<>>]
    /\ held = [t \in ToolThreads |-> {}]

\* the governors as create_agent_team makes them, the tool threads idle
LocksInit ==
    /\ locks = [g \in Governors |-> NoThread]
    /\ lpc = [t \in ToolThreads |-> "idle"]
    /\ todo = [t \in ToolThreads |-> <<>>]
    /\ held = [t \in ToolThreads |-> {}]

\* a tool thread starts a tool call that uses a governor
StartToolCall(t, path) ==
    /\ lpc[t] = "idle"
    /\ lpc' = [lpc EXCEPT ![t] = "calling"]
    /\ todo' = [todo EXCEPT ![t] = path]
    /\ UNCHANGED <<locks, held>>
    /\ UNCHANGED notLockVars

\* `with self._lock:` of the next call: the thread goes on when the lock is
\* free (threading.Lock is not reentrant)
LockAcquire(t) ==
    /\ lpc[t] = "calling"
    /\ locks[Head(todo[t])[1]] = NoThread
    /\ locks' = [locks EXCEPT ![Head(todo[t])[1]] = t]
    /\ held' = [held EXCEPT ![t] = @ \cup {Head(todo[t])[1]}]
    /\ lpc' = [lpc EXCEPT ![t] = "holding"]
    /\ UNCHANGED todo
    /\ UNCHANGED notLockVars

\* the body of the method: it returns and the with block releases the lock,
\* or it calls a governor method first
LockBody(t) ==
    /\ lpc[t] = "holding"
    /\ LET gov == Head(todo[t])[1]
           inside == LocksTakenInside(gov, Head(todo[t])[2])
       IN  IF inside = <<>>
              THEN /\ locks' = [locks EXCEPT ![gov] = NoThread]
                   /\ held' = [held EXCEPT ![t] = @ \ {gov}]
                   /\ todo' = [todo EXCEPT ![t] = Tail(@)]
                   /\ lpc' = [lpc EXCEPT ![t] =
                                IF Tail(todo[t]) = <<>> THEN "idle"
                                                        ELSE "calling"]
              ELSE /\ todo' = [todo EXCEPT ![t] = inside \o @]
                   /\ lpc' = [lpc EXCEPT ![t] = "calling"]
                   /\ UNCHANGED <<locks, held>>
    /\ UNCHANGED notLockVars

(***************************************************************************)
(* DBTableCodeTool.delete_records.  The workers of a task share one tool   *)
(* and one table: between the find and the delete_many of one call the     *)
(* other workers' calls change the table.                                  *)
(***************************************************************************)

\* the tables a task can have built: every document has the schema columns
\* and the _id the store gave it
StoredTables(columns) ==
    LET docs(oid) == {d \in [SetOf(columns) \cup {"_id"} -> {"null", "v", oid}] :
                         /\ d["_id"] = oid
                         /\ \A k \in SetOf(columns) : d[k] # oid}
    IN  {<<>>} \cup {<<d>> : d \in docs(GeneratedId(1))}
               \cup (docs(GeneratedId(1)) \X docs(GeneratedId(2)))

\* the updates the other workers make meanwhile
DeleteRaceUpdates ==
    {[k \in {"id"} |-> "v"], [k \in {"id"} |-> "null"],
     [k \in {"note"} |-> ""], [k \in {"x"} |-> "v"]}

\* the filters of delete_records: none, one column, an _id, both
DeleteFilters ==
    {<<>>, [k \in {"id"} |-> "v"], [k \in {"id"} |-> "null"],
     [k \in {"_id"} |-> "g1"],
     [k \in {"_id", "id"} |-> IF k = "_id" THEN "g2" ELSE ""]}

\* is_record_empty: every schema column is None or ""
IsRecordEmpty(record, columns) ==
    \A col \in SetOf(columns) :
        col \notin DOMAIN record \/ record[col] \in {"null", ""}

\* records_to_delete: the empty ones among the matching records
RecordsToDelete(found, columns) ==
    {found[i]["_id"] : i \in {j \in 1..Len(found) :
                                 IsRecordEmpty(found[j], columns)}}

DelIdle ==
    /\ dpc = "off"
    /\ del_query = <<>>
    /\ matching_records = <<>>
    /\ deleted = {}

\* a table some workers have filled, and no delete_records call yet
RecDelInit ==
    /\ table_exists = TRUE
    /\ schema_columns \in Schemas
    /\ records \in StoredTables(schema_columns)
    /\ Len(records) <= MaxRecords
    /\ rec_op = "none"
    /\ rec_off = {}
    /\ rec_report = NoReport
    /\ dpc = "idle"
    /\ del_query = <<>>
    /\ matching_records = <<>>
    /\ deleted = {}

\* delete_records up to matching_records = list(collection.find(query));
\* without a match the call returns
DeleteFind(filter) ==
    /\ dpc \in {"idle", "done"}
    /\ del_query' = filter
    /\ matching_records' = SelectSeq(records, LAMBDA d : Matches(d, filter))
    /\ dpc' = IF matching_records' = <<>> THEN "done" ELSE "found"
    /\ UNCHANGED deleted
    /\ UNCHANGED notDelVars

\* the rest of delete_records: collection.delete_many on the _id of the
\* records that were empty when they were read
DeleteMany ==
    /\ dpc = "found"
    /\ LET ids == RecordsToDelete(matching_records, schema_columns)
           gone == {i \in 1..Len(records) : records[i]["_id"] \in ids}
       IN  /\ records' = SelectSeq(records, LAMBDA d : d["_id"] \notin ids)
           /\ deleted' = deleted \cup {records[i] : i \in gone}
    /\ dpc' = "done"
    /\ UNCHANGED <<del_query, matching_records>>
    /\ UNCHANGED <<table_exists, schema_columns, rec_op, rec_off, rec_report>>
    /\ UNCHANGED <<govVars, teamVars, toolVars, tableVars, compVars, schedVars,
                   poolVars, modelVars, lockVars, batchVars, addVars>>

(***************************************************************************)
(* DBTableCodeTool.add_records as the workers of a task run it: the        *)
(* existence checks of a call all come before its insert_many, and the     *)
(* calls of the other workers come in between.                             *)
(***************************************************************************)

AddWorkers == 1..NumWorkers

\* the lists of the calls that run side by side
SharedLists ==
    {<<[k \in {"id"} |-> "v"]>>,
     <<[k \in {"id", "note"} |-> "v"]>>,
     <<[k \in {"id"} |-> "v"], [k \in {"id"} |-> "v"]>>,
     <<[k \in {"id", "_id"} |-> IF k = "_id" THEN "k1" ELSE "v"]>>,
     <<[k \in {"x"} |-> "v"]>>}

\* no two documents with the same values in all schema columns
NoDuplicates(docs, columns) ==
    \A i, j \in 1..Len(docs) :
        (\A k \in SetOf(columns) : docs[i][k] = docs[j][k]) => i = j

\* records_to_insert: the processed records that were found neither
\* mismatched, nor all None, nor stored
RecordsToInsert(records_data, columns, docs) ==
    LET kept == SelectSeq(records_data,
                   LAMBDA r : Disposition(r, columns, docs) = "insert")
    IN  [i \in 1..Len(kept) |-> ProcessedRecord(kept[i], columns)]

\* the documents the calls in progress are about to insert
Pending == [w \in AddWorkers |-> Len(add_pending[w])]
PendingTotal == Pending[1] + Pending[2]

AddIdle ==
    /\ apc = [w \in AddWorkers |-> "off"]
    /\ add_calls = [w \in AddWorkers |-> 0]
    /\ add_args = [w \in AddWorkers |-> <<>>]
    /\ add_prev = [w \in AddWorkers |-> <<>>]
    /\ add_pending = [w \in AddWorkers |-> <<>>]

\* a table without duplicates, and no add_records call yet
RecAddInit ==
    /\ table_exists = TRUE
    /\ schema_columns \in Schemas
    /\ records \in StoredTables(schema_columns)
    /\ Len(records) < MaxRecords
    /\ NoDuplicates(records, schema_columns)
    /\ rec_op = "none"
    /\ rec_off = {}
    /\ rec_report = NoReport
    /\ apc = [w \in AddWorkers |-> "idle"]
    /\ add_calls = [w \in AddWorkers |-> 0]
    /\ add_args = [w \in AddWorkers |-> <<>>]
    /\ add_prev = [w \in AddWorkers |-> <<>>]
    /\ add_pending = [w \in AddWorkers |-> <<>>]

\* add_records up to the end of the loop that looks each record up; a list
\* that is refused returns at once
AddCheck(w, records_data) ==
    /\ apc[w] \in {"idle", "done"}
    /\ add_calls[w] < MaxAddCalls
    /\ add_calls' = [add_calls EXCEPT ![w] = @ + 1]
    /\ add_args' = [add_args EXCEPT ![w] = records_data]
    /\ add_prev' = [add_prev EXCEPT ![w] = add_args[w]]
    /\ IF \/ records_data = <<>>
          \/ \E i \in 1..Len(records_data) :
                ~ValidateRecordData(records_data[i])
          THEN /\ apc' = [apc EXCEPT ![w] = "done"]
               /\ add_pending' = [add_pending EXCEPT ![w] = <<>>]
               /\ rec_report' = [NoReport EXCEPT !.kind = "invalid_records"]
               /\ rec_op' = "add_records"
               /\ rec_off' = OffSchema(SetOf(records_data), schema_columns)
       ELSE LET to_insert == RecordsToInsert(records_data, schema_columns,
                                             records)
            IN  /\ Len(records) + PendingTotal + Len(to_insert)
                      <= MaxRecords
                /\ apc' = [apc EXCEPT ![w] = "checked"]
                /\ add_pending' = [add_pending EXCEPT ![w] = to_insert]
                /\ UNCHANGED <<rec_op, rec_off, rec_report>>
    /\ UNCHANGED <<table_exists, schema_columns, records>>
    /\ UNCHANGED <<govVars, teamVars, toolVars, tableVars, compVars, schedVars,
                   poolVars, modelVars, lockVars, delVars, batchVars>>

\* the rest of add_records: insert_many(records_to_insert) and the report
AddInsert(w) ==
    /\ apc[w] = "checked"
    /\ records' = InsertMany(records, add_pending[w])
    /\ apc' = [apc EXCEPT ![w] = "done"]
    /\ add_pending' = [add_pending EXCEPT ![w] = <<>>]
    /\ rec_op' = "add_records"
    /\ rec_off' = OffSchema(SetOf(add_args[w]), schema_columns)
    /\ rec_report' = [kind |-> "report",
                      named |-> {},
                      inserted |-> Len(records') - Len(records)]
    /\ UNCHANGED <<add_calls, add_args, add_prev>>
    /\ UNCHANGED <<table_exists, schema_columns>>
    /\ UNCHANGED <<govVars, teamVars, toolVars, tableVars, compVars, schedVars,
                   poolVars, modelVars, lockVars, delVars, batchVars>>

(***************************************************************************)
(* run_widesearch_batch and the database: the batch clears the tables      *)
(* before it makes the pool, and every child calls run_inference with the  *)
(* clear_db it was handed.                                                 *)
(***************************************************************************)

\* the clear_db of the tasks, were the batch's own flag handed on
ClearDbHandedOn == batch_clear_db

\* task_clear_db = False
TaskClearDb == FALSE

BatchIdle ==
    /\ batch_clear_db = FALSE
    /\ bpc = "off"
    /\ db_clears = 0
    /\ entered = {}
    /\ cleared_under = {}

\* run_widesearch_batch(clear_db = ...) with tasks left to run
BatchInit ==
    /\ batch_clear_db \in BOOLEAN
    /\ bpc = "start"
    /\ db_clears = 0
    /\ entered = {}
    /\ cleared_under = {}

\* if clear_db: clear_database_tables(db_name); then the pool is made
BatchClear ==
    /\ bpc = "start"
    /\ bpc' = "pool"
    /\ db_clears' = IF batch_clear_db THEN db_clears + 1 ELSE db_clears
    /\ cleared_under' = IF batch_clear_db
                           THEN cleared_under \cup {t \in BatchTasks :
                                                       child_alive[t]}
                           ELSE cleared_under
    /\ UNCHANGED <<batch_clear_db, entered>>
    /\ UNCHANGED notBatchVars

\* executor.submit(run_single_task_with_timeout, ...): the pool runs the
\* tasks once it exists
BatchTakeTask(w, t) ==
    /\ bpc = "pool"
    /\ TakeTask(w, t)

\* the child of task t enters run_inference(clear_db = task_clear_db):
\* if clear_db: clear_database_tables(db_name)
ChildEntersRunInference(t) ==
    /\ child_alive[t]
    /\ t \notin entered
    /\ entered' = entered \cup {t}
    /\ db_clears' = IF TaskClearDb THEN db_clears + 1 ELSE db_clears
    /\ cleared_under' = IF TaskClearDb
                           THEN cleared_under \cup
                                   {u \in BatchTasks \ {t} : child_alive[u]}
                           ELSE cleared_under
    /\ UNCHANGED <<batch_clear_db, bpc>>
    /\ UNCHANGED notBatchVars

(***************************************************************************)
(* Specifications.                                                         *)
(***************************************************************************)

GovIdle ==
    /\ limit = 0
    /\ count = 0
    /\ lock = 0
    /\ gpc = [t \in Threads |-> "idle"]
    /\ gop = [t \in Threads |-> "none"]
    /\ gret = [t \in Threads |-> "none"]
    /\ gseen = [t \in Threads |-> 0]
    /\ gstat = [limit0 |-> 0, started |-> 0, tries |-> 0, granted |-> 0,
                denied |-> 0, resets |-> 0, contended |-> FALSE]

GovNext ==
    \/ \E t \in Threads, o \in GovOps : GovCall(t, o)
    \/ \E t \in Threads : GovAcquire(t)
    \/ \E t \in Threads : TryIncrementCheck(t)
    \/ \E t \in Threads : TryIncrementIncr(t)
    \/ \E t \in Threads : GetCount(t)
    \/ \E t \in Threads : GetRemaining(t)
    \/ \E t \in Threads : Reset(t)
    \/ \E t \in Threads : GovRelease(t)

\* one resource governor used by several threads
\* one governor, nothing else in play
GovOnlyInit ==
    /\ GovInit /\ TeamIdle /\ ToolsIdle /\ TableIdle /\ CompIdle /\ SchedIdle
    /\ PoolIdle
    /\ ModelIdle
    /\ RecIdle
    /\ LocksIdle
    /\ DelIdle
    /\ BatchIdle
    /\ AddIdle

SpecGov == GovOnlyInit /\ [][GovNext]_vars

TeamNext ==
    \/ \E t \in ToolThreads, n \in ManagedNames : Delegate(t, n)
    \/ \E t \in ToolThreads : Deny(t)
    \/ \E t \in ToolThreads : CreateCopy(t)
    \/ \E t \in ToolThreads : SaveRef(t)
    \/ \E t \in ToolThreads : Substitute(t)
    \/ \E t \in ToolThreads : Dispatch(t)
    \/ \E t \in ToolThreads : RunStart(t)
    \/ \E t \in ToolThreads : RunFinish(t)
    \/ \E t \in ToolThreads : Restore(t)

\* the main agent delegating to its managed agents on its tool threads
\* a team with a call governor, no tool budgets and no table calls
TeamOnlyInit ==
    /\ TeamInit /\ GovIdle /\ ToolsIdle /\ TableIdle /\ CompIdle /\ SchedIdle
    /\ PoolIdle
    /\ ModelIdle
    /\ RecIdle
    /\ LocksIdle
    /\ DelIdle
    /\ BatchIdle
    /\ AddIdle

SpecTeam == TeamOnlyInit /\ [][TeamNext]_vars

\* the tool threads when the construction of a copy can fail
TeamFailNext ==
    \/ \E t \in ToolThreads, n \in ManagedNames : Delegate(t, n)
    \/ \E t \in ToolThreads : Deny(t)
    \/ \E t \in ToolThreads : CreateCopy(t)
    \/ \E t \in ToolThreads : CreateCopyFails(t)
    \/ \E t \in ToolThreads : SaveRef(t)
    \/ \E t \in ToolThreads : Substitute(t)
    \/ \E t \in ToolThreads : Dispatch(t)
    \/ \E t \in ToolThreads : RunStart(t)
    \/ \E t \in ToolThreads : RunFinish(t)
    \/ \E t \in ToolThreads : Restore(t)

SpecTeamFail == TeamOnlyInit /\ [][TeamFailNext]_vars

\* the main agent delegating one call at a time (one tool call per step)
OneCallAtATime(t) == \A u \in ToolThreads \ {t} : cpc[u] = "idle"

TeamSeqNext ==
    \/ \E t \in ToolThreads, n \in ManagedNames :
          OneCallAtATime(t) /\ Delegate(t, n)
    \/ \E t \in ToolThreads : Deny(t)
    \/ \E t \in ToolThreads : CreateCopy(t)
    \/ \E t \in ToolThreads : SaveRef(t)
    \/ \E t \in ToolThreads : Substitute(t)
    \/ \E t \in ToolThreads : Dispatch(t)
    \/ \E t \in ToolThreads : RunStart(t)
    \/ \E t \in ToolThreads : RunFinish(t)
    \/ \E t \in ToolThreads : Restore(t)

SpecTeamSeq == TeamOnlyInit /\ [][TeamSeqNext]_vars

TeamResetNext ==
    \/ TeamNext
    \/ \E n \in ManagedNames \cup {"all"} : CounterReset(n)

\* the tool threads, with the call governor also being reset
SpecTeamReset == TeamOnlyInit /\ [][TeamResetNext]_vars

\* a task with search and visit budgets; of the managed agents one may be
\* called twice and the other not at all
BudgetInit ==
    /\ limits = [n \in ManagedNames |->
                    IF n = "tabular_search_agent" THEN MaxCallLimit ELSE 0]
    /\ TeamBuilt
    /\ ToolsInit
    /\ GovIdle
    /\ TableIdle
    /\ CompIdle
    /\ SchedIdle
    /\ PoolIdle
    /\ ModelIdle
    /\ RecIdle
    /\ LocksIdle
    /\ DelIdle
    /\ BatchIdle
    /\ AddIdle

BudgetNext ==
    \/ TeamNext
    \/ \E k \in Kinds : MainToolCall(k)
    \/ \E t \in ToolThreads, k \in Kinds : SubToolCall(t, k)

SpecBudget == BudgetInit /\ [][BudgetNext]_vars

\* two workers of one task, each calling create_table once
TableNext ==
    \/ \E w \in Workers, n \in TableNameArgs, c \in ColumnNamesArgs :
          TableCall(w, n, c)
    \/ \E w \in Workers : TableTryIncrement(w)
    \/ \E w \in Workers : TableRefuse(w)
    \/ \E w \in Workers, f \in StoreFailures : CreateTable(w, f)

TableOnlyInit ==
    /\ TableInit /\ GovIdle /\ TeamIdle /\ ToolsIdle /\ CompIdle /\ SchedIdle
    /\ PoolIdle
    /\ ModelIdle
    /\ RecIdle
    /\ LocksIdle
    /\ DelIdle
    /\ BatchIdle
    /\ AddIdle

SpecTable == TableOnlyInit /\ [][TableNext]_vars

\* workers of one task, each making one search, visit or create_table call
WrappersInit ==
    /\ task_id = <<"t">>
    /\ collections = EmptyStore
    /\ metadata = EmptyStore
    /\ WorkersIdle
    /\ tbl_stat = [admitted |-> {}, denied |-> {}, overlap |-> FALSE,
                   had_old |-> FALSE]
    /\ ToolsInit
    /\ GovIdle
    /\ TeamIdle
    /\ CompIdle
    /\ SchedIdle
    /\ PoolIdle
    /\ ModelIdle
    /\ RecIdle
    /\ LocksIdle
    /\ DelIdle
    /\ BatchIdle
    /\ AddIdle

WrappersNext ==
    \/ \E w \in Workers, n \in TableNameArgs, c \in ColumnNamesArgs :
          TableCall(w, n, c)
    \/ \E w \in Workers : TableTryIncrement(w)
    \/ \E w \in Workers : TableRefuse(w)
    \/ \E w \in Workers, f \in StoreFailures : CreateTable(w, f)
    \/ \E w \in Workers, k \in Kinds : WrapperCall(w, k)
    \/ \E w \in Workers : WrapperTryIncrement(w)
    \/ \E w \in Workers : WrapperRefuse(w)
    \/ \E w \in Workers, n \in 1..MaxRequests, o \in Outcomes("search")
                          \cup Outcomes("visit") : WrapperRequest(w, n, o)

SpecWrappers == WrappersInit /\ [][WrappersNext]_vars

\* one agent with context summarization running one task
CompOnlyInit ==
    /\ CompInit /\ GovIdle /\ TeamIdle /\ ToolsIdle /\ TableIdle /\ SchedIdle
    /\ PoolIdle
    /\ ModelIdle
    /\ RecIdle
    /\ LocksIdle
    /\ DelIdle
    /\ BatchIdle
    /\ AddIdle

CompNext ==
    \/ \E t \in Tasks : RunTask(t)
    \/ \E u \in TokenUsages : Plan(u)
    \/ CheckTrigger
    \/ BeginSummarization
    \/ \E o \in ApiOutcomes : Attempt(o)
    \/ Sleep
    \/ ReplaceMemory
    \/ \E u \in TokenUsages, final \in BOOLEAN : Act(u, final)

SpecCompact == CompOnlyInit /\ [][CompNext]_vars

\* the summarization runs in the thread of the agent: once begun, each of
\* its statements is executed; every call of the summary API returns or
\* raises
SpecCompactLive ==
    /\ CompOnlyInit
    /\ [][CompNext]_vars
    /\ WF_vars(BeginSummarization)
    /\ WF_vars(\E o \in ApiOutcomes : Attempt(o))
    /\ WF_vars(Sleep)
    /\ WF_vars(ReplaceMemory)

\* one task of the batch, from the start of its process to its
\* postprocessed result
SchedOnlyInit ==
    /\ SchedInit /\ GovIdle /\ TeamIdle /\ ToolsIdle /\ TableIdle /\ CompIdle
    /\ PoolIdle
    /\ ModelIdle
    /\ RecIdle
    /\ LocksIdle
    /\ DelIdle
    /\ BatchIdle
    /\ AddIdle

SchedNext ==
    \/ StartProcess
    \/ Tick
    \/ \E r \in ChildResults : ChildSaveResult(r)
    \/ ChildCreateTable
    \/ ChildLogApiError
    \/ \E r \in ChildResults, fits \in BOOLEAN : ChildFinish(r, fits)
    \/ ChildDies
    \/ JoinReturn
    \/ GraceJoinReturn
    \/ KillJoinReturn
    \/ \E get_ok \in BOOLEAN : Collect(get_ok)
    \/ \E saved \in BOOLEAN : Postprocess(saved)

SpecSched == SchedOnlyInit /\ [][SchedNext]_vars

\* the same task under run_deepsearch_batch, which appends the returned
\* result as it is
SchedDeepNext ==
    \/ StartProcess
    \/ Tick
    \/ \E r \in ChildResults : ChildSaveResult(r)
    \/ ChildCreateTable
    \/ ChildLogApiError
    \/ \E r \in ChildResults, fits \in BOOLEAN : ChildFinish(r, fits)
    \/ ChildDies
    \/ JoinReturn
    \/ GraceJoinReturn
    \/ KillJoinReturn
    \/ \E get_ok \in BOOLEAN : Collect(get_ok)
    \/ AppendResult

SpecSchedDeep == SchedOnlyInit /\ [][SchedDeepNext]_vars

\* a task of a batch run over the result files of earlier batches
SkipOnlyInit ==
    /\ SkipInit /\ GovIdle /\ TeamIdle /\ ToolsIdle /\ TableIdle /\ CompIdle
    /\ PoolIdle
    /\ ModelIdle
    /\ RecIdle
    /\ LocksIdle
    /\ DelIdle
    /\ BatchIdle
    /\ AddIdle

SkipNext ==
    \/ SkipCompleted
    \/ \E skip_completed \in BOOLEAN : SubmitTask(skip_completed)
    \/ Tick
    \/ \E r \in ChildResults : ChildSaveResult(r)
    \/ ChildCreateTable
    \/ ChildLogApiError
    \/ \E r \in ChildResults, fits \in BOOLEAN : ChildFinish(r, fits)
    \/ ChildDies
    \/ JoinReturn
    \/ GraceJoinReturn
    \/ KillJoinReturn
    \/ \E get_ok \in BOOLEAN : Collect(get_ok)
    \/ \E saved \in BOOLEAN : Postprocess(saved)

SpecSkip == SkipOnlyInit /\ [][SkipNext]_vars

\* postprocess_result applied to one result dict
PostOnlyInit ==
    /\ PostInit /\ GovIdle /\ TeamIdle /\ ToolsIdle /\ TableIdle /\ CompIdle
    /\ PoolIdle
    /\ ModelIdle
    /\ RecIdle
    /\ LocksIdle
    /\ DelIdle
    /\ BatchIdle
    /\ AddIdle

PostNext ==
    \/ \E saved \in BOOLEAN : Postprocess(saved)

SpecPost == PostOnlyInit /\ [][PostNext]_vars

\* the threads of the pool working through the tasks of a batch
PoolOnlyInit ==
    /\ PoolInit /\ GovIdle /\ TeamIdle /\ ToolsIdle /\ TableIdle /\ CompIdle
    /\ SchedIdle
    /\ ModelIdle
    /\ RecIdle
    /\ LocksIdle
    /\ DelIdle
    /\ BatchIdle
    /\ AddIdle

PoolNext ==
    \/ \E w \in PoolThreads, t \in BatchTasks : TakeTask(w, t)
    \/ \E t \in BatchTasks : PoolChildExit(t)
    \/ \E w \in PoolThreads : PoolJoinReturn(w)

SpecPool == PoolOnlyInit /\ [][PoolNext]_vars

\* a batch run from its start: the clearing, then the pool
BatchOnlyInit ==
    /\ PoolInit /\ BatchInit
    /\ GovIdle /\ TeamIdle /\ ToolsIdle /\ TableIdle /\ CompIdle
    /\ SchedIdle
    /\ ModelIdle
    /\ RecIdle
    /\ LocksIdle
    /\ DelIdle
    /\ AddIdle

BatchNext ==
    \/ BatchClear
    \/ \E w \in PoolThreads, t \in BatchTasks : BatchTakeTask(w, t)
    \/ \E t \in BatchTasks : ChildEntersRunInference(t)
    \/ \E t \in BatchTasks : PoolChildExit(t)
    \/ \E w \in PoolThreads : PoolJoinReturn(w)

SpecBatch == BatchOnlyInit /\ [][BatchNext]_vars

\* one call of generate or generate_stream
ModelOnlyInit ==
    /\ ModelInit /\ GovIdle /\ TeamIdle /\ ToolsIdle /\ TableIdle /\ CompIdle
    /\ SchedIdle
    /\ PoolIdle
    /\ RecIdle
    /\ LocksIdle
    /\ DelIdle
    /\ BatchIdle
    /\ AddIdle

ModelNext ==
    \/ CreateSucceeds
    \/ \E e \in ModelErrors, sleep_time \in SleepTimes :
          CreateFails(e, sleep_time)
    \/ NextAttempt
    \/ StreamEnds
    \/ \E e \in ModelErrors : StreamFails(e)

SpecModel == ModelOnlyInit /\ [][ModelNext]_vars

\* calls of the record operations on one table
RecOnlyInit ==
    /\ RecInit /\ GovIdle /\ TeamIdle /\ ToolsIdle /\ TableIdle /\ CompIdle
    /\ SchedIdle
    /\ PoolIdle
    /\ ModelIdle
    /\ LocksIdle
    /\ DelIdle
    /\ BatchIdle
    /\ AddIdle

RecNext ==
    \/ \E records_data \in RecordLists : AddRecords(records_data)
    \/ \E updates \in UpdateArgs, id_column \in {"id", "x"} :
          UpdateRecord("v", updates, id_column)
    \/ \E filter_query \in FilterArgs, updates \in UpdateArgs :
          UpdateRecords(filter_query, updates)

SpecRec == RecOnlyInit /\ [][RecNext]_vars

\* one worker's delete_records among the other workers' updates
RecDelOnlyInit ==
    /\ RecDelInit /\ GovIdle /\ TeamIdle /\ ToolsIdle /\ TableIdle /\ CompIdle
    /\ SchedIdle
    /\ PoolIdle
    /\ ModelIdle
    /\ LocksIdle
    /\ BatchIdle
    /\ AddIdle

RecDelNext ==
    \/ \E filter \in DeleteFilters : DeleteFind(filter)
    \/ DeleteMany
    \/ \E updates \in DeleteRaceUpdates : UpdateRecord("v", updates, "id")
    \/ \E filter_query \in FilterArgs, updates \in DeleteRaceUpdates :
          UpdateRecords(filter_query, updates)

SpecRecDel == RecDelOnlyInit /\ [][RecDelNext]_vars

\* one worker calling add_records on a table, one call after the other
RecAddOnlyInit ==
    /\ RecAddInit /\ GovIdle /\ TeamIdle /\ ToolsIdle /\ TableIdle /\ CompIdle
    /\ SchedIdle
    /\ PoolIdle
    /\ ModelIdle
    /\ LocksIdle
    /\ DelIdle
    /\ BatchIdle

RecAddSeqNext ==
    \/ \E records_data \in RecordLists : AddCheck(1, records_data)
    \/ AddInsert(1)

SpecRecAddSeq == RecAddOnlyInit /\ [][RecAddSeqNext]_vars

\* the workers of a task calling add_records on the table they share
RecAddNext ==
    \/ \E w \in AddWorkers, records_data \in SharedLists :
          AddCheck(w, records_data)
    \/ \E w \in AddWorkers : AddInsert(w)

SpecRecAdd == RecAddOnlyInit /\ [][RecAddNext]_vars

\* the tool threads of a task calling the governors
LocksOnlyInit ==
    /\ LocksInit /\ GovIdle /\ TeamIdle /\ ToolsIdle /\ TableIdle /\ CompIdle
    /\ SchedIdle
    /\ PoolIdle
    /\ ModelIdle
    /\ RecIdle
    /\ DelIdle
    /\ BatchIdle
    /\ AddIdle

LocksNext ==
    \/ \E t \in ToolThreads, path \in ToolCallPaths : StartToolCall(t, path)
    \/ \E t \in ToolThreads : LockAcquire(t)
    \/ \E t \in ToolThreads : LockBody(t)

\* a thread that holds a lock runs: the method bodies have no wait in them
SpecLocks ==
    /\ LocksOnlyInit
    /\ [][LocksNext]_vars
    /\ \A t \in ToolThreads : WF_vars(LockBody(t))

(***************************************************************************)
(* Claims about one resource governor, checked under SpecGov.              *)
(***************************************************************************)

\* C1: on a governor with limit L that is never reset, count never exceeds L,
\* and once 2L try_increment calls issued by concurrent threads have
\* returned, exactly L of them returned True and the other L returned False.
C1_ExactlyLimitGranted ==
    gstat.resets = 0 =>
        /\ count <= limit
        /\ gstat.granted <= limit
        /\ gstat.tries = 2 * limit =>
              (gstat.granted = limit /\ gstat.denied = limit)

\* 2L calls have returned on a governor with L = 2 that was never reset, and
\* at least one call was issued while another thread held the lock
C1_Witness ==
    /\ gstat.resets = 0
    /\ limit = 2
    /\ gstat.tries = 2 * limit
    /\ gstat.granted = limit
    /\ gstat.contended

\* C2: 0 <= count <= limit in every state reached by interleavings of
\* try_increment, get_count, get_remaining and reset (limit >= 0, a maximum
\* number of calls).
C2_CountWithinLimit == 0 <= count /\ count <= limit

\* the counter is full again after a reset: more calls were granted in total
\* than the limit, and count is still within it
C2_Witness ==
    /\ gstat.resets > 0
    /\ gstat.granted > limit
    /\ count = limit
    /\ \E t \in Threads : gpc[t] = "release" /\ gop[t] = "get_remaining"
                           /\ gret[t] = 0

\* C3: a try_increment that is about to return (it still holds the lock)
\* returns True exactly when count < limit held when it took the lock, and
\* then count is that value plus 1; otherwise it returns False and count is
\* that value; limit is what the constructor set.
C3_TryIncrementContract ==
    \A t \in Threads :
        (gpc[t] = "release" /\ gop[t] = "try_increment") =>
            /\ gret[t] \in BOOLEAN
            /\ gret[t] = (gseen[t] < limit)
            /\ count = gseen[t] + (IF gret[t] THEN 1 ELSE 0)
            /\ limit = gstat.limit0

\* a call is refused after earlier calls were granted
C3_Witness ==
    \E t \in Threads :
        /\ gpc[t] = "release"
        /\ gop[t] = "try_increment"
        /\ gret[t] = FALSE
        /\ gstat.granted > 0

(***************************************************************************)
(* Claims about delegation to managed agents.                              *)
(***************************************************************************)

Running(t) == cpc[t] \in {"dispatched", "running"}

\* C4: concurrent execute_tool_call invocations for the same managed agent
\* each run on an agent object of their own: no two invocations in flight
\* run on the same memory, step counter and state.
C4_NoSharedExecutionContext ==
    \A t, u \in ToolThreads :
        (t # u /\ Running(t) /\ Running(u)) => frame[t].target # frame[u].target

\* C5: the dispatch of each call resolves the name to the copy that the same
\* call created, and once all calls have returned the name is bound to the
\* original template again.
C5_SubstitutionDoesNotLeak ==
    /\ \A t \in ToolThreads :
          Running(t) => frame[t].target = CopyId(frame[t].call)
    /\ (\A t \in ToolThreads : cpc[t] = "idle") =>
          \A n \in ManagedNames : managed_agents[n] = Template(n)

\* C6: a template is never mutated after construction (its memory, step
\* number and state stay as built), and every copy is built from the
\* template, never from another call's copy.
C6_TemplateNeverMutated ==
    /\ \A n \in ManagedNames : agents[Template(n)] = NewAgent(Template(n))
    /\ \A c \in Calls :
          agents[CopyId(c)] # NoObject =>
              agents[CopyId(c)].built_from \in {Template(n) : n \in ManagedNames}

\* C9: with limits = {A: 2} and delegations made one after the other, the
\* first two delegations to A are granted and the third is denied, and the
\* third returns the limit message, which lists count, limit and remaining
\* budget of every name that has a limit.
C9_ThirdSequentialCallDenied ==
    \A A \in ManagedNames :
        limits = [n \in {A} |-> 2] =>
            \A c \in Calls :
                glog[c].name = A =>
                    /\ glog[c].rank <= 2 => glog[c].granted
                    /\ glog[c].rank = 3 =>
                          /\ ~glog[c].granted
                          /\ result[c].kind # "none" =>
                                /\ result[c].kind = "limit_reached"
                                /\ result[c].tool_name = A
                                /\ result[c].limit = 2
                                /\ result[c].status =
                                      [n \in DOMAIN limits |->
                                          [count |-> 2, limit |-> 2,
                                           remaining |-> 0]]

\* three delegations to the same agent have returned: two reports, then the
\* limit message
C9_Witness ==
    \E A \in ManagedNames :
        /\ limits = [n \in {A} |-> 2]
        /\ \A c \in 1..3 : glog[c].name = A /\ glog[c].rank = c
        /\ result[1].kind = "report"
        /\ result[2].kind = "report"
        /\ result[3].kind = "limit_reached"

RemainingAtDenial(c, n) ==
    IF n \in DOMAIN result[c].status THEN result[c].status[n].remaining > 0
                                     ELSE TRUE

\* C11: a delegation the call governor denies returns the limit message; no
\* copy was built for it, its try_increment changed no count, the thread
\* holds no copy, saved binding or dispatch target, and the message tells
\* the coordinator to finish and names exactly the managed agents whose
\* remaining budget is > 0.
C11_DenialDegradesGracefully ==
    /\ \A t \in ToolThreads :
          cpc[t] = "denied" =>
              /\ frame[t].agent_copy = NoAgent
              /\ frame[t].original_ref = NoAgent
              /\ frame[t].target = NoAgent
    /\ \A c \in Calls :
          (glog[c].name # "none" /\ ~glog[c].granted) =>
              /\ glog[c].kept
              /\ agents[CopyId(c)] = NoObject
              /\ result[c].kind \in {"none", "limit_reached"}
              /\ result[c].kind = "limit_reached" =>
                    /\ result[c].finish_instruction
                    /\ result[c].available_agents =
                          {n \in ManagedNames : RemainingAtDenial(c, n)}

\* a denied call returned a message that names no agent although the other
\* managed agent has no limit
C11_Witness ==
    \E c \in Calls, m \in ManagedNames \ DOMAIN limits :
        /\ result[c].kind = "limit_reached"
        /\ result[c].available_agents = {}
        /\ glog[c].name # m

(***************************************************************************)
(* Claims about the search and visit budgets.                              *)
(***************************************************************************)

\* the agent objects that exist
Built == {a \in AgentIds : agents[a] # NoObject}

\* C8: the main agent, both templates and every per-call copy hold tools
\* with the same governor, and for each kind that has a limit the number of
\* tool calls that got past the governor, summed over all agents and copies,
\* never exceeds the limit.
C8_BudgetsAreGlobal ==
    \A k \in Kinds :
        /\ \A a, b \in Built :
              GovernorOf(agents[a].tools, k) = GovernorOf(agents[b].tools, k)
        /\ tool_limit[k] # None => tool_stat.passed[k] <= tool_limit[k]

\* a budget is used up by calls made from the main agent and from a copy,
\* and a further call was refused
C8_Witness ==
    \E k \in Kinds :
        /\ tool_limit[k] = 1
        /\ tool_stat.passed[k] = 1
        /\ tool_stat.refused[k] > 0
        /\ \E c \in Calls : CopyId(c) \in tool_stat.users
        /\ \E j \in Kinds \ {k} : tool_limit[j] = 1 /\ MainAgent \in tool_stat.users

(***************************************************************************)
(* Claims about table creation, checked under SpecTable.                   *)
(***************************************************************************)

\* the schemas the store holds for the task
TaskSchemas ==
    {n \in DOMAIN collections :
        task_id = <<>> \/ StartsWith(n, task_id \o <<"_">>)}

BothReturned == \A w \in Workers : wpc[w] = "done"

RefusalKinds == {"limit_reached", "create_table_not_allowed"}

\* C12: a search, visit or create_table call that its governor denies sends
\* no request to the outside and no request to the record store, and it
\* returns the refusal message (it does not raise).
C12_DeniedCallOnlyReturnsRefusal ==
    \A w \in tbl_stat.denied :
        /\ wreq[w] = 0
        /\ wpc[w] \in {"refuse", "done"}
        /\ wpc[w] = "done" => wret[w].kind \in RefusalKinds
        /\ wpc[w] = "done" /\ wargs[w].operation = "create_table" =>
              wret[w].kind = "create_table_not_allowed"
        /\ wpc[w] = "done" /\ wargs[w].operation \in Kinds =>
              wret[w].kind = "limit_reached"

\* of two calls of the same operation one was let through and sent its
\* requests, the other was denied and returned the refusal
C12_Witness ==
    \E w \in tbl_stat.denied, v \in Workers \ tbl_stat.denied :
        /\ wpc[w] = "done" /\ wpc[v] = "done"
        /\ wargs[w].operation = wargs[v].operation
        /\ wargs[w].operation \in Kinds
        /\ wret[w].kind = "limit_reached"
        /\ wreq[v] > 0

(***************************************************************************)
(* Claims about context summarization, checked under SpecCompact.          *)
(***************************************************************************)

\* the steps of s that recorded a token usage
Measured(s) ==
    {i \in 1..Len(s) : /\ s[i].type \in {"ActionStep", "PlanningStep"}
                       /\ s[i].input_tokens # None}

ActionSteps(s) == {i \in 1..Len(s) : s[i].type = "ActionStep"}

\* the trigger as the specification words it
TriggerHolds(s) ==
    /\ Measured(s) # {}
    /\ LET last == CHOOSE i \in Measured(s) : \A j \in Measured(s) : j <= i
       IN  s[last].input_tokens > context_token_threshold
    /\ Cardinality(ActionSteps(s)) >= min_steps_before_summary

Summarizing == spc \in {"summarize", "attempt", "sleep", "replace"}

\* C13: the check made before a step is true exactly when the most recent
\* ActionStep or PlanningStep with a token usage reports input tokens over
\* the threshold and the memory holds at least min_steps_before_summary
\* ActionSteps; a memory with no such step does not trigger; compaction
\* runs only after a true check.
C13_TriggerExactlyWhenOverThreshold ==
    /\ ShouldSummarize(steps) <=> TriggerHolds(steps)
    /\ Measured(steps) = {} => ~ShouldSummarize(steps)
    /\ snap.steps # <<>> => (snap.should <=> TriggerHolds(snap.steps))
    /\ Summarizing => snap.should
    /\ (spc = "act" /\ ~snap.should) => steps = snap.steps

\* the check was true on a memory whose latest measured step is over the
\* threshold while an earlier one is not
C13_Witness ==
    /\ spc = "summarize"
    /\ \E i \in Measured(steps) : steps[i].input_tokens <= context_token_threshold

\* the memory was replaced in this step
JustCompacted == spc = "act" /\ snap.should

\* C14: after compaction the memory is exactly [SummaryStep, TaskStep]; the
\* SummaryStep holds the task text of before, the number of steps of before
\* and the last recorded input tokens of before; the TaskStep holds the
\* same task text.
C14_MemoryIsSummaryThenTask ==
    JustCompacted =>
        /\ Len(steps) = 2
        /\ steps[1].type = "SummaryStep"
        /\ steps[2].type = "TaskStep"
        /\ \A i \in 1..Len(snap.steps) :
              snap.steps[i].type = "TaskStep" =>
                  /\ steps[1].task = snap.steps[i].task
                  /\ steps[2].task = snap.steps[i].task
        /\ steps[1].summarized_steps_count = Len(snap.steps)
        /\ LET m == Measured(snap.steps)
               last == CHOOSE i \in m : \A j \in m : j <= i
           IN  /\ m # {}
               /\ steps[1].tokens_before_summary = snap.steps[last].input_tokens

\* a memory of a TaskStep, a PlanningStep and ActionSteps was compacted
C14_Witness ==
    /\ JustCompacted
    /\ summarization_count = 1
    /\ Len(snap.steps) >= 3
    /\ \E i \in 1..Len(snap.steps) : snap.steps[i].type = "PlanningStep"
    /\ steps[1].summary.kind = "generated"

\* C15: after every compaction, the first or a later one, the memory holds
\* exactly one TaskStep, it is the last entry, and it and the SummaryStep
\* carry the task the run was started with.
C15_CompactionIsRepeatable ==
    JustCompacted =>
        /\ Cardinality({i \in 1..Len(steps) : steps[i].type = "TaskStep"}) = 1
        /\ steps[Len(steps)].type = "TaskStep"
        /\ steps[Len(steps)].task = task
        /\ \A i \in 1..Len(steps) :
              steps[i].type = "SummaryStep" => steps[i].task = task
        /\ task \in Tasks

\* a second compaction, of a memory that began with a SummaryStep
C15_Witness ==
    /\ JustCompacted
    /\ summarization_count >= 2
    /\ snap.steps[1].type = "SummaryStep"
    /\ Len(snap.steps) >= 3

\* the attempts and the waits of the retry loop, at every point of it
RetryLoopBounded ==
    /\ spc \in {"attempt", "sleep"} =>
          /\ attempt \in 1..summary_max_retries
          /\ summary = NoSummary
    /\ spc = "sleep" => attempt < summary_max_retries
    /\ attempt <= summary_max_retries
    /\ attempt >= 1 => Len(waits) = attempt - 1
    /\ \A k \in 1..Len(waits) : waits[k] = IF 5 * k <= 30 THEN 5 * k ELSE 30
    /\ (spc = "replace" /\ summary.kind = "failed_after_retries") =>
          /\ attempt = summary_max_retries
          /\ Len(waits) = IF summary_max_retries = 0
                             THEN 0 ELSE summary_max_retries - 1
    /\ (spc = "replace" /\ summary.kind = "generated") => attempt >= 1

\* an attempt that returns content ends the loop, a failed one is followed
\* by the next only after its wait
RetryLoopStep ==
    /\ (spc = "attempt" /\ spc' = "sleep") => summary' = NoSummary
    /\ (spc = "attempt" /\ summary' = Generated) => spc' = "replace"
    /\ (spc = "attempt" /\ spc' = "replace" /\ summary' # Generated) =>
          /\ attempt = summary_max_retries
          /\ summary'.kind = "failed_after_retries"
    /\ attempt' > attempt =>
          /\ attempt' = attempt + 1
          /\ \/ spc = "summarize" /\ waits' = <<>>
             \/ spc = "sleep" /\ Len(waits') = Len(waits) + 1

FailedKinds == {"failed_api_unavailable", "failed_after_retries"}

\* a summarization without a generated summary still replaces the memory
DegradedSummaryKeepsTask ==
    /\ (Summarizing /\ spc # "summarize" /\ ~api_available) =>
          /\ summary = FailedUnavailable(task)
          /\ attempt = 0
    /\ (spc = "replace" /\ summary.kind # "generated") =>
          /\ summary.kind \in FailedKinds
          /\ summary.task = task
          /\ task \in Tasks
    /\ (JustCompacted /\ steps[1].summary.kind # "generated") =>
          /\ Len(steps) = 2
          /\ steps[1].type = "SummaryStep"
          /\ steps[1].summary.kind \in FailedKinds
          /\ steps[1].summary.task = task
          /\ steps[1].task = task
          /\ steps[2] = TaskStep(task)
          /\ task \in Tasks

\* the step that follows a degraded compaction is taken on the new memory
StepFollowsDegradedCompaction ==
    /\ (spc = "replace" /\ summary.kind \in FailedKinds) =>
          /\ spc' = "act"
          /\ steps'[1].summary = summary
    /\ (JustCompacted /\ steps[1].summary.kind \in FailedKinds) =>
          /\ spc' \in {"ready", "finished"}
          /\ Len(steps') = 3
          /\ SubSeq(steps', 1, 2) = steps
          /\ steps'[3].type = "ActionStep"

\* C17: when every attempt failed or the summarization API is unavailable,
\* the memory is still replaced by [SummaryStep, TaskStep], the summary
\* text states the failure and contains the task text, and the step of the
\* agent is taken next.
C17_FailedSummaryStillCompacts ==
    /\ []DegradedSummaryKeepsTask
    /\ [][StepFollowsDegradedCompaction]_vars

\* the default five attempts all failed and the memory was replaced
C17_Witness ==
    /\ JustCompacted
    /\ api_available
    /\ summary_max_retries = DefaultMaxRetries
    /\ steps[1].summary = FailedAfterRetries(task, DefaultMaxRetries)
    /\ steps[2] = TaskStep(task)

(***************************************************************************)
(* Claims about the batch runner.                                          *)
(***************************************************************************)

Returned == ppc \in {"returned", "done"}

\* the child was still alive when the join on the timeout returned
AliveAtDeadline == signals # <<>>

\* C18: a task whose child is still running at the timeout is reported with
\* timeout = True, and its end_time - start_time is at least the timeout and
\* at most the timeout plus the 10 s and the 5 s of the two later joins,
\* however long the child would have run; no other task is reported so.
C18_TimeoutReportedWithinTolerance ==
    /\ Joining => now <= timeout_seconds + GraceWait + KillWait
    /\ (Returned /\ AliveAtDeadline) =>
          /\ res.timeout
          /\ res.end_time >= timeout_seconds
          /\ res.end_time <= timeout_seconds + GraceWait + KillWait
    /\ (Returned /\ res.timeout) => AliveAtDeadline

\* a child that outlasted both signals: the latest possible end_time
C18_Witness ==
    /\ ppc = "returned"
    /\ res.timeout
    /\ timeout_seconds = MaxTimeout
    /\ res.end_time = MaxTimeout + GraceWait + KillWait

\* terminate comes first and kill follows only after a full grace wait
EscalationOrder ==
    /\ signals \in {<<>>, <<"SIGTERM">>, <<"SIGTERM", "SIGKILL">>}
    /\ ppc = "grace_join" =>
          /\ signals = <<"SIGTERM">>
          /\ join_from = timeout_seconds
    /\ ppc = "kill_join" =>
          /\ signals = <<"SIGTERM", "SIGKILL">>
          /\ join_from = timeout_seconds + GraceWait
    /\ ppc = "collect" => signals = <<>>
    /\ (Returned /\ ~res.timeout) => signals = <<>>

\* a signal is sent only to a child that is alive when the wait before it
\* has run out
SignalOnlyWhenStillAlive ==
    signals' # signals =>
        /\ process = "alive"
        /\ process' = "alive"
        /\ ppc \in {"join", "grace_join"}
        /\ now - join_from = JoinTimeout
        /\ signals' = Append(signals,
                              IF ppc = "join" THEN "SIGTERM" ELSE "SIGKILL")

\* the timeout result is returned for a child that is gone
ChildGoneAtReturn ==
    (ppc = "returned" /\ res.timeout) => process = "exited"

\* C19: at the timeout the supervisor sends terminate, waits the grace
\* period, and sends kill only if the child is still alive then; kill never
\* comes before terminate, a child that exited before the timeout gets no
\* signal, and when the timeout result is returned the child is no longer
\* running.
C19_EscalationThenChildGone ==
    /\ []EscalationOrder
    /\ [][SignalOnlyWhenStillAlive]_vars
    /\ []ChildGoneAtReturn

\* both signals were sent, the last join ran its 5 s, and the timeout
\* result was returned
C19_Witness ==
    /\ ppc = "returned"
    /\ res.timeout
    /\ signals = <<"SIGTERM", "SIGKILL">>
    /\ now - join_from = KillWait

\* the child exited before the timeout and the queue was empty
ChannelYieldedNothing ==
    /\ Returned
    /\ signals = <<>>
    /\ res.source \in {"file", "supervisor"}
    /\ res.error # GetFailedError(0).error

NoResultReported == res.error = NoResultError(0).error

EmptyAnswer(r) == r.answer \in {"none", "empty"}

\* C21: a task that timed out was sent the termination signals, and if the
\* store holds tables of the task its collected result has an answer.
C21_TimeoutRecoversFromTables ==
    (ppc = "done" /\ res.timeout) =>
        /\ signals # <<>>
        /\ Head(signals) = "SIGTERM"
        /\ task_tables => ~EmptyAnswer(res)

\* a timed-out task with tables in the store was collected
C21_Witness ==
    /\ ppc = "done"
    /\ res.timeout
    /\ task_tables

\* C22: every collected result carries an error or an answer.
C22_RecordHasErrorOrAnswer ==
    ppc = "done" => (res.error # "none" \/ ~EmptyAnswer(res))

\* the result of a child whose run_inference returned None was collected
C22_Witness ==
    /\ ppc = "done"
    /\ res.source = "queue"
    /\ res.answer = "none"
    /\ res.error = "none"
    /\ ~res.timeout

\* a result file is complete: it can be read, carries no error, and its
\* answer is not empty, does not begin with "Error:" and holds no tool-call
\* text
ArtifactComplete(f) ==
    /\ f.state = "readable"
    /\ f.content.error = "none"
    /\ f.content.answer \notin {"none", "empty", "error_prefixed",
                                 "tool_tags"}

\* every result file of the run is one that batch runs leave behind
ResultFileOnDisk ==
    result_file.state = "readable" =>
        AsWritten(result_file.content) \in ResultsOnDisk(MaxBatches)

TerminalStatus(r) ==
    IF r.timeout THEN "timed_out"
    ELSE IF r.error # "none" THEN "errored"
    ELSE "completed"

\* a task is queued, then running, then has one returned record
LifecycleOrder ==
    /\ ppc = "idle" => ppc' \in {"idle", "join"}
    /\ ppc \in {"join", "grace_join", "kill_join", "collect"} =>
          ppc' \in {ppc, "grace_join", "kill_join", "collect", "returned"}
    /\ ppc = "returned" => ppc' \in {"returned", "done"}
    /\ ppc = "done" => (ppc' = "done" /\ res' = res)
    /\ ~Returned => res = BlankResult

\* the status of the returned record stays what it was
StatusSetOnce ==
    Returned => TerminalStatus(res') = TerminalStatus(res)

\* C24: a task goes from queued to running to one terminal record, whose
\* status (completed, timed out or errored) is set when the record is
\* returned and is the same after post-processing.
C24_TerminalStatusSetOnce ==
    /\ [][LifecycleOrder]_vars
    /\ [][StatusSetOnce]_vars

\* a record returned with the no-result error was recovered from tables
C24_Witness ==
    /\ ppc = "done"
    /\ res.source = "supervisor"
    /\ ~res.timeout
    /\ res.recovered_from_tables
    /\ res.error = "none"

\* C25: when the record of a task has been collected, the result file of
\* the task exists, whatever the outcome of the task.
C25_ResultFileForEveryTask ==
    ppc = "done" => result_file.state # "absent"

\* a timed-out task was collected and has no result file
C25_Witness ==
    /\ ppc = "done"
    /\ res.timeout
    /\ result_file = NoFile

AliveChildren == {t \in BatchTasks : child_alive[t]}

Supervised == {worker_task[w] : w \in PoolThreads} \ {NoWork}

\* a thread runs one task at a time and leaves a child only when it has
\* exited or has been sent both signals
OneTaskPerThread ==
    /\ Cardinality(Supervised) <= max_workers
    /\ \A w \in PoolThreads : w > max_workers => worker_task[w] = NoWork
    /\ \A v, w \in PoolThreads :
          (v # w /\ worker_task[v] # NoWork) =>
              worker_task[v] # worker_task[w]
    /\ \A t \in BatchTasks :
          /\ t \in Supervised <=>
                task_state[t] \in {"join", "grace_join", "kill_join"}
          /\ (child_alive[t] /\ t \notin Supervised) =>
                pool_signals[t] = <<"SIGTERM", "SIGKILL">>
          /\ task_state[t] = "queued" => ~child_alive[t]

\* C26: at every moment at most max_workers child processes are alive: a
\* thread of the pool starts one process and takes no other task until
\* that process has exited or has been terminated and killed.
C26_AtMostMaxWorkersAlive ==
    /\ OneTaskPerThread
    /\ Cardinality(AliveChildren) <= max_workers

\* every thread of the pool is running a task whose child is alive
C26_Witness ==
    /\ max_workers = MaxWorkers
    /\ Cardinality(Supervised) = MaxWorkers
    /\ \A t \in Supervised : child_alive[t]
    /\ \E t \in BatchTasks : task_state[t] = "returned"

\* the errors the specification calls transient: rate limit, malformed field
\* and transport
TransientErrors ==
    {"RateLimitError", "BadRequestError", "APIConnectionError",
     "APITimeoutError"}

\* at most max_retries attempts, each sleep within the jitter interval, one
\* sleep before every attempt but the first
AttemptsAndSleepsBounded ==
    /\ m_attempt \in 0..(ModelMaxRetries - 1)
    /\ m_sleeps = (IF mpc = "sleep" THEN m_attempt + 1 ELSE m_attempt)
    /\ m_sleeps > 0 => m_sleep_time \in SleepMin..SleepMax

\* no attempt follows a successful create
ReturnsOnFirstSuccess ==
    [][(mpc \in {"stream", "returned"}) =>
            (mpc' # "create" /\ mpc' # "sleep")]_vars

\* a transient error is raised to the caller only by the last attempt
RaisedOnlyAfterExhaustion ==
    (mpc = "raised" /\ m_error \in TransientErrors) =>
        m_attempt = ModelMaxRetries - 1

\* C27: generate and generate_stream retry every transient model error (rate
\* limit, malformed field, transport) after a sleep of 10 to 20 seconds, make
\* at most 10 attempts, return on the first success and raise the error only
\* when the attempts are exhausted.
C27_TransientErrorsRetried ==
    /\ AttemptsAndSleepsBounded
    /\ RaisedOnlyAfterExhaustion

\* the first attempt met a rate limit and the call has raised it
C27_Witness ==
    /\ mpc = "raised"
    /\ m_error = "RateLimitError"
    /\ m_attempt = 0
    /\ m_sleeps = 0

\* every stored document has only declared columns and an _id
StoredFieldsInSchema ==
    \A i \in 1..Len(records) :
        DOMAIN records[i] \subseteq SetOf(schema_columns) \cup {"_id"}

\* the calls that returned an error and changed nothing
RejectedKinds ==
    {"invalid_records", "invalid_update", "no_table", "no_id_column",
     "invalid_columns"}

\* a call that supplied fields outside the schema was rejected or its report
\* contains the name of each of them
OffSchemaRejectedOrNamed ==
    rec_off # {} =>
        \/ rec_report.kind \in RejectedKinds
        \/ rec_off \subseteq rec_report.named

\* C28: after any sequence of add_records, update_record and update_records
\* calls every stored record has only fields of the declared schema (plus
\* _id), and every call that supplied a field outside the schema was
\* rejected or names that field in the report it returned.
C28_ColumnSetEnforced ==
    /\ StoredFieldsInSchema
    /\ OffSchemaRejectedOrNamed

\* add_records inserted a record that came with a field outside the schema
\* and the report says nothing of that field
C28_Witness ==
    /\ rec_op = "add_records"
    /\ rec_report.kind = "report"
    /\ rec_report.inserted > 0
    /\ rec_off # {}
    /\ rec_off \cap rec_report.named = {}

\* call c was admitted, is past line 337 and no copy was built for it
CopyFailed(c) ==
    /\ glog[c].granted
    /\ agents[CopyId(c)] = NoObject
    /\ ~\E t \in ToolThreads : frame[t].call = c /\ cpc[t] = "admitted"

\* a call whose copy was not built has ended with the error and has run on
\* no agent's memory
FailedCallNeverRuns ==
    \A c \in Calls :
        CopyFailed(c) =>
            /\ result[c] = [kind |-> "copy_error"]
            /\ \A t \in ToolThreads : frame[t].call # c
            /\ \A a \in AgentIds :
                  \A i \in 1..Len(agents[a].memory) : agents[a].memory[i] # c

\* the step in which the construction fails leaves the binding as it was
FailureKeepsBinding ==
    (\E c \in Calls : ~CopyFailed(c) /\ CopyFailed(c)') =>
        managed_agents' = managed_agents

\* C29: when the construction of the per-call copy fails the delegation ends
\* at once with an error, the call runs on no agent (the template's live
\* memory included), and the coordinator's by-name binding is left as it
\* was, pointing at the template.
C29_CopyFailureFailsTheCall ==
    /\ []FailedCallNeverRuns
    /\ [][FailureKeepsBinding]_vars

\* a call failed in the construction of its copy while the binding held the
\* template, and the template has not run
C29_Witness ==
    \E c \in Calls :
        /\ CopyFailed(c)
        /\ result[c] = [kind |-> "copy_error"]
        /\ managed_agents[glog[c].name] = Template(glog[c].name)
        /\ agents[Template(glog[c].name)].memory = <<>>

\* a thread entering `with self._lock` holds no governor lock
NoNestedAcquire ==
    \A t \in ToolThreads : lpc[t] = "calling" => held[t] = {}

\* a lock is held only by a thread that is inside the method body, and a
\* thread holds the one lock of the method it is in
HeldOnlyInsideMethod ==
    /\ \A g \in Governors :
          locks[g] # NoThread =>
              /\ lpc[locks[g]] = "holding"
              /\ Head(todo[locks[g]])[1] = g
    /\ \A t \in ToolThreads :
          held[t] = {g \in Governors : locks[g] = t}

\* some thread can take a step whenever a thread has a call to make
NoDeadlock ==
    (\E t \in ToolThreads : lpc[t] # "idle") =>
        \E t \in ToolThreads :
            \/ lpc[t] = "holding"
            \/ lpc[t] = "calling" /\ locks[Head(todo[t])[1]] = NoThread

\* a call that has the lock completes
HolderCompletes ==
    \A t \in ToolThreads : (lpc[t] = "holding") ~> (lpc[t] # "holding")

\* C30: no governor operation blocks indefinitely: every call completes once
\* it has the lock, no thread tries to acquire a governor lock while it
\* holds one, and no interleaving of tool threads on the search, visit,
\* create-table and call governors deadlocks, the denial path with its
\* several queries of the call governor included.
C30_GovernorsNeverBlock ==
    /\ []NoNestedAcquire
    /\ []HeldOnlyInsideMethod
    /\ []NoDeadlock
    /\ HolderCompletes

\* a thread on the denial path holds the call governor's lock for
\* get_all_status while another thread waits for the same lock
C30_Witness ==
    \E t, u \in ToolThreads :
        /\ lpc[t] = "holding"
        /\ Head(todo[t]) = <<"call", "get_all_status">>
        /\ lpc[u] = "calling"
        /\ Head(todo[u])[1] = "call"

\* a delete_many that finds the table as the find left it removes exactly
\* the matching records whose schema columns are all empty
DeletesExactlyEmptyMatches ==
    [][(/\ dpc = "found" /\ dpc' = "done"
        /\ matching_records =
              SelectSeq(records, LAMBDA d : Matches(d, del_query))) =>
          /\ \A i \in 1..Len(records') :
                ~(Matches(records'[i], del_query)
                    /\ IsRecordEmpty(records'[i], schema_columns))
          /\ deleted' \ deleted =
                {records[i] : i \in {j \in 1..Len(records) :
                    /\ Matches(records[j], del_query)
                    /\ IsRecordEmpty(records[j], schema_columns)}}]_vars

\* C31: delete_records removes only completely empty records: a record with
\* a non-null, non-empty value in a schema column is never deleted.
C31_OnlyEmptyRecordsDeleted ==
    \A d \in deleted : IsRecordEmpty(d, schema_columns)

\* a record that had a value when delete_many removed it
C31_Witness ==
    /\ dpc = "done"
    /\ \E d \in deleted : ~IsRecordEmpty(d, schema_columns)

\* C32: in a batch run with clear_db = True the database is cleared exactly
\* once, before any task process is started; every task runs with
\* clear_db = False, so no clearing happens while tasks are running.
C32_ClearedOnceBeforeTasks ==
    /\ db_clears = (IF batch_clear_db /\ bpc = "pool" THEN 1 ELSE 0)
    /\ cleared_under = {}
    /\ bpc = "start" => \A t \in BatchTasks : task_state[t] = "queued"

\* a batch with clear_db = True in which two children are inside
\* run_inference at once
C32_Witness ==
    /\ batch_clear_db
    /\ db_clears = 1
    /\ \E t, u \in entered : t # u /\ child_alive[t] /\ child_alive[u]

\* C33: postprocess_result on an invalid result with an API-error pattern in
\* the tail of agent_log.txt recovers nothing: answer and response become
\* "", api_error and skip_recovery are set, the error stays, and that dict
\* is what the result file holds afterwards (the file stays as it was only
\* when the write raised); a valid result and a result without instance_id
\* are returned as they are and no file is written.
ApiErrorCase ==
    /\ ppc = "returned"
    /\ res.instance_id
    /\ ~IsResultValid(res)
    /\ api_error_in_log

ReturnedUnchangedCase ==
    /\ ppc = "returned"
    /\ ~res.instance_id \/ IsResultValid(res)

NoRecoveryOnApiError ==
    (ApiErrorCase /\ ppc' = "done") =>
        /\ res' = [res EXCEPT !.answer = "empty", !.api_error = TRUE,
                              !.skip_recovery = TRUE]
        /\ ~res'.recovered_from_tables
        /\ result_file' \in {SavedFile(res'), result_file}
        /\ result_file' # result_file => result_file' = SavedFile(res')

ValidReturnedUnchanged ==
    (ReturnedUnchangedCase /\ ppc' = "done") =>
        /\ res' = res
        /\ result_file' = result_file

C33_ApiErrorSkipsRecovery ==
    [][NoRecoveryOnApiError /\ ValidReturnedUnchanged]_vars

C33_Witness ==
    /\ ppc = "done"
    /\ res.api_error /\ res.skip_recovery /\ res.answer = "empty"
    /\ task_tables
    /\ result_file = SavedFile(res)

\* C34: add_records is idempotent.  As stated: a record whose non-null
\* schema fields all match a stored record is skipped, and a second call
\* with the same list inserts nothing and leaves the records as they were.
FieldsMatchStored(r, columns, docs) ==
    LET p == ProcessedRecord(r, columns)
    IN  /\ NonNoneFields(p) # {}
        /\ \E i \in 1..Len(docs) :
              Matches(docs[i], [k \in NonNoneFields(p) |-> p[k]])

IdStored(r, docs) == \E i \in 1..Len(docs) : docs[i]["_id"] = r["_id"]

StartsAddCall(w) ==
    /\ apc[w] \in {"idle", "done"}
    /\ add_calls'[w] = add_calls[w] + 1

SkippedByCall(w, r) ==
    ProcessedRecord(r, schema_columns) \notin SetOf(add_pending'[w])

MatchingRecordsSkipped ==
    \A w \in AddWorkers :
        StartsAddCall(w) =>
            \A i \in 1..Len(add_args'[w]) :
                FieldsMatchStored(add_args'[w][i], schema_columns, records)
                    => SkippedByCall(w, add_args'[w][i])

SecondCallInsertsNothing ==
    \A w \in AddWorkers :
        (StartsAddCall(w) /\ apc[w] = "done" /\ add_args'[w] = add_args[w])
            => add_pending'[w] = <<>>

SecondCallKeepsRecords ==
    \A w \in AddWorkers :
        (apc[w] = "checked" /\ apc'[w] = "done" /\ add_calls[w] > 1
                           /\ add_args[w] = add_prev[w])
            => records' = records

DuplicatesSkippedByIdOrFields ==
    \A w \in AddWorkers :
        StartsAddCall(w) =>
            \A i \in 1..Len(add_args'[w]) :
                LET r == add_args'[w][i]
                IN  IF "_id" \in DOMAIN r
                       THEN IdStored(r, records) => SkippedByCall(w, r)
                       ELSE FieldsMatchStored(r, schema_columns, records)
                               => SkippedByCall(w, r)

C40_NoDuplicateRecords == NoDuplicates(records, schema_columns)

\* two calls with one record each, without "_id", have both returned
C40_Witness ==
    /\ \A w \in AddWorkers :
          /\ apc[w] = "done"
          /\ add_calls[w] = 1
          /\ Len(add_args[w]) = 1
          /\ "_id" \notin DOMAIN add_args[w][1]
    /\ ~NoDuplicates(records, schema_columns)

\* C35: compaction cannot loop.  Right after a compaction the memory is
\* [SummaryStep, TaskStep] and the trigger is false; from then on the
\* trigger is true only when at least min_steps_before_summary ActionSteps
\* have been appended since and one of the steps appended since reports
\* input tokens over the threshold; a step of the agent compacts at most
\* once.
AppendedSinceCompaction == SubSeq(steps, 3, Len(steps))

TriggerFalseAfterCompaction ==
    JustCompacted =>
        /\ Len(steps) = 2
        /\ ~ShouldSummarize(steps)

TriggerNeedsNewSteps ==
    summarization_count >= 1 =>
        /\ Len(steps) >= 2
        /\ steps[1].type = "SummaryStep"
        /\ steps[2].type = "TaskStep"
        /\ ShouldSummarize(steps) =>
              /\ CountActionSteps(AppendedSinceCompaction)
                    >= min_steps_before_summary
              /\ \E i \in 3..Len(steps) :
                    /\ steps[i].input_tokens # None
                    /\ steps[i].input_tokens > context_token_threshold

OneCompactionPerStep ==
    summarization_count
        <= step_number + (IF JustCompacted \/ Summarizing THEN 1 ELSE 0)

C35_CompactionCannotLoop ==
    /\ TriggerFalseAfterCompaction
    /\ TriggerNeedsNewSteps
    /\ OneCompactionPerStep

\* the trigger is true again, on steps appended since the compaction
C35_Witness ==
    /\ summarization_count = 1
    /\ spc = "summarize"
    /\ min_steps_before_summary >= 1
    /\ steps[1].type = "SummaryStep"

\* C36: the counts printed at the end of a batch partition the results:
\* every collected result is counted in exactly one of completed, timeout
\* and errors, also a result recovered from tables after a timeout and a
\* result with neither answer nor error.
TimesCounted(r) ==
    BatchCounts(r).completed + BatchCounts(r).timeout_count
        + BatchCounts(r).error_count

C36_CountsPartitionResults == ppc = "done" => TimesCounted(res) = 1

\* a result recovered from tables after a timeout has been collected
C36_Witness ==
    /\ ppc = "done"
    /\ res.timeout
    /\ res.recovered_from_tables
    /\ TimesCounted(res) = 2

\* C37: a child that has put its result on the queue before the deadline
\* is not reported as timed out: whatever the size of the result, the exit
\* of the child and the join of the supervisor do not wait for each other
\* until the deadline, and the supervisor returns with timeout = False.
PutBeforeDeadline ==
    /\ result_queue # <<>>
    /\ Head(result_queue).end_time < timeout_seconds

C37_FinishedTaskNotTimedOut ==
    /\ ~(ppc = "join" /\ process = "alive" /\ PutBeforeDeadline
                      /\ now - join_from >= timeout_seconds)
    /\ (ppc \in {"returned", "done"} /\ res.timeout) => ~PutBeforeDeadline

\* the result that was put in time has been read from the queue
C37_Witness ==
    /\ ppc = "returned"
    /\ res.source = "queue"
    /\ res.answer = "good"
    /\ ~res.timeout
    /\ now < timeout_seconds

\* C38: recovery never destroys a good answer: when the result file of a
\* task holds a valid answer and the task was stopped at the deadline, the
\* timeout path and postprocess_result leave the file as it is and the
\* record of the task carries the answer of the file.
GoodAnswerOnDisk == IsTaskCompleted(result_file)

TimeoutPathKeepsFile ==
    (ppc \in {"join", "grace_join", "kill_join"} /\ ppc' = "returned"
        /\ GoodAnswerOnDisk)
        => result_file' = result_file

PostprocessKeepsGoodAnswer ==
    (ppc = "returned" /\ ppc' = "done" /\ res.timeout /\ GoodAnswerOnDisk)
        => /\ result_file' = result_file
           /\ res'.answer = result_file.content.answer

C38_GoodAnswerSurvivesRecovery ==
    [][TimeoutPathKeepsFile /\ PostprocessKeepsGoodAnswer]_vars

\* the timeout result was returned for a task whose file holds a valid
\* answer
C38_Witness ==
    /\ ppc = "returned"
    /\ res.timeout
    /\ GoodAnswerOnDisk
    /\ task_tables

\* C39: the one-time right to create a table is consumed only by a
\* successful schema definition: the governor has counted as many calls as
\* have created a table, and after a create_table call that passed the
\* governor and returned an error, a later create_table call is admitted.
FailedAfterAdmission(w) ==
    /\ w \in tbl_stat.admitted
    /\ wpc[w] = "done"
    /\ wret[w].kind # "created"

RightConsumedOnlyBySuccess ==
    (\A w \in Workers : wpc[w] \in {"idle", "done"}) =>
        create_table_count
            = Cardinality({w \in Workers : wret[w].kind = "created"})

LaterCallAdmitted ==
    (BothReturned /\ ~tbl_stat.overlap
        /\ \E w \in Workers : FailedAfterAdmission(w))
        => tbl_stat.denied = {}

C39_FailedCreateKeepsTheRight ==
    /\ RightConsumedOnlyBySuccess
    /\ LaterCallAdmitted

\* a call was admitted and returned an error, and the call made after it
\* has returned
C39_Witness ==
    /\ BothReturned
    /\ ~tbl_stat.overlap
    /\ \E w \in Workers : FailedAfterAdmission(w)
    /\ \E w \in Workers : wret[w].kind = "create_table_not_allowed"

=============================================================================
